---------------------------- MODULE Spec2Model ----------------------------
(***************************************************************************)
(* EduSolve AI: the text classification core.                              *)
(*                                                                         *)
(* Two process-wide classifier instances (subject, difficulty) are loaded  *)
(* lazily by the first predict, trained from a bundled sample corpus when  *)
(* no usable artifact is on disk, and consulted by classify_question,      *)
(* which overrides a low-confidence subject by a whole-word keyword scan   *)
(* of the raw question (backend/ml_model.py, backend/preprocess.py).       *)
(*                                                                         *)
(* Text is a sequence of one-character strings.  A confidence c in [0,1]  *)
(* is the integer c * Scale; Scale is a multiple of 100, 3 and 7, so that  *)
(* every literal of the source and the priors 1/3 and 1/7 of the bundled   *)
(* corpora are exact.                                                      *)
(***************************************************************************)
EXTENDS Integers, Sequences, FiniteSets, TLC

Range(f) == { f[i] : i \in DOMAIN f }

Min(a, b) == IF a <= b THEN a ELSE b

Max(a, b) == IF a >= b THEN a ELSE b

\* F(x), with x evaluated once however often F uses its argument
With(x, F(_)) == CHOOSE y \in { F(v) : v \in {x} } : TRUE

Scale == 100 * 21

\* p hundredths, as a confidence
Pct(p) == p * 21

----------------------------------------------------------------------------
(* Characters                                                              *)

LowerCase ==
  <<"a","b","c","d","e","f","g","h","i","j","k","l","m",
    "n","o","p","q","r","s","t","u","v","w","x","y","z">>

UpperCase ==
  <<"A","B","C","D","E","F","G","H","I","J","K","L","M",
    "N","O","P","Q","R","S","T","U","V","W","X","Y","Z">>

Digits == {"0","1","2","3","4","5","6","7","8","9"}

\* [a-zA-Z]
IsAsciiLetter(c) == c \in Range(LowerCase) \cup Range(UpperCase)

\* \s and \S of the re module, on the characters used here
IsSpace(c) == c = " "

\* \w of the re module, on the characters used here
IsWordChar(c) == IsAsciiLetter(c) \/ c \in Digits \/ c = "_"

LowerChar(c) ==
  IF \E i \in DOMAIN UpperCase : UpperCase[i] = c
  THEN LowerCase[CHOOSE i \in DOMAIN UpperCase : UpperCase[i] = c]
  ELSE c

\* str.lower
lower(text) == [i \in DOMAIN text |-> LowerChar(text[i])]

\* whether pattern occurs in text starting at position i
MatchesAt(text, i, pattern) ==
  /\ i >= 1
  /\ i + Len(pattern) - 1 <= Len(text)
  /\ \A k \in 1..Len(pattern) : text[i + k - 1] = pattern[k]

----------------------------------------------------------------------------
(* Text Normalizer (backend/preprocess.py)                                 *)

RECURSIVE KeepWhere(_, _, _)
\* the characters of text at the positions >= i that are in keep, in order
KeepWhere(text, keep, i) ==
  IF i > Len(text) THEN <<>>
  ELSE (IF i \in keep THEN <<text[i]>> ELSE <<>>) \o KeepWhere(text, keep, i + 1)

\* the first position >= i holding whitespace, or Len(text) + 1
EndOfRun(text, i) ==
  IF \E j \in i..Len(text) : IsSpace(text[j])
  THEN CHOOSE j \in i..Len(text) :
         IsSpace(text[j]) /\ \A k \in i..(j - 1) : ~IsSpace(text[k])
  ELSE Len(text) + 1

\* a prefix followed by \S+ starts at position i
PrefixRunAt(text, i, prefix) ==
  /\ MatchesAt(text, i, prefix)
  /\ i + Len(prefix) <= Len(text)
  /\ ~IsSpace(text[i + Len(prefix)])

RECURSIVE RemoveUrls(_, _)
\* re.sub(r'http\S+|www\S+|https\S+', '', text), scanning from position i
RemoveUrls(text, i) ==
  IF i > Len(text) THEN <<>>
  ELSE IF PrefixRunAt(text, i, <<"h","t","t","p">>)
         THEN RemoveUrls(text, EndOfRun(text, i + 4))
  ELSE IF PrefixRunAt(text, i, <<"w","w","w">>)
         THEN RemoveUrls(text, EndOfRun(text, i + 3))
  ELSE <<text[i]>> \o RemoveUrls(text, i + 1)

\* position i lies in a maximal run of non-whitespace that \S+@\S+ matches:
\* the run holds an "@" with a character of the run on each side
InEmailRun(text, i) ==
  /\ ~IsSpace(text[i])
  /\ \E p \in 1..Len(text) :
       /\ text[p] = "@"
       /\ p > 1 /\ ~IsSpace(text[p - 1])
       /\ p < Len(text) /\ ~IsSpace(text[p + 1])
       /\ \A k \in Min(i, p)..Max(i, p) : ~IsSpace(text[k])

\* re.sub(r'\S+@\S+', '', text)
RemoveEmails(text) ==
  KeepWhere(text, { i \in 1..Len(text) : ~InEmailRun(text, i) }, 1)

\* re.sub(r'[^a-zA-Z\s]', '', text)
RemoveNonLetters(text) ==
  KeepWhere(text,
            { i \in 1..Len(text) : IsAsciiLetter(text[i]) \/ IsSpace(text[i]) }, 1)

RECURSIVE Split(_, _)
\* the maximal runs of non-whitespace of text from position i on
Split(text, i) ==
  IF i > Len(text) THEN <<>>
  ELSE IF IsSpace(text[i]) THEN Split(text, i + 1)
  ELSE LET e == EndOfRun(text, i)
       IN  <<SubSeq(text, i, e - 1)>> \o Split(text, e)

RECURSIVE Join(_)
\* ' '.join(words)
Join(words) ==
  IF words = <<>> THEN <<>>
  ELSE IF Len(words) = 1 THEN words[1]
  ELSE words[1] \o <<" ">> \o Join(Tail(words))

\* re.sub(r'\s+', ' ', text).strip()
CollapseWhitespace(text) == Join(Split(text, 1))

clean_text(text) ==
  With(RemoveUrls(text, 1), LAMBDA a :
    With(RemoveEmails(a), LAMBDA b :
      With(RemoveNonLetters(b), CollapseWhitespace)))

\* the contractions word_tokenize splits in text of lowercase letters
Contractions ==
  { << <<"c","a","n","n","o","t">>, <<"c","a","n">>, <<"n","o","t">> >>,
    << <<"g","i","m","m","e">>, <<"g","i","m">>, <<"m","e">> >>,
    << <<"g","o","n","n","a">>, <<"g","o","n">>, <<"n","a">> >>,
    << <<"g","o","t","t","a">>, <<"g","o","t">>, <<"t","a">> >>,
    << <<"l","e","m","m","e">>, <<"l","e","m">>, <<"m","e">> >>,
    << <<"w","a","n","n","a">>, <<"w","a","n">>, <<"n","a">> >> }

RECURSIVE SplitContractions(_)
SplitContractions(words) ==
  IF words = <<>> THEN <<>>
  ELSE LET w == words[1]
           hit == { c \in Contractions : c[1] = w }
       IN  (IF hit = {} THEN <<w>>
            ELSE LET c == CHOOSE c \in hit : TRUE IN <<c[2], c[3]>>)
           \o SplitContractions(Tail(words))

\* word_tokenize, on text that clean_text and lowercase produced
tokenize(text) == SplitContractions(Split(text, 1))

stop_words ==
  { <<"i">>, <<"m","e">>, <<"m","y">>, <<"m","y","s","e","l","f">>, <<"w","e">>,
    <<"o","u","r">>, <<"o","u","r","s">>,
    <<"o","u","r","s","e","l","v","e","s">>, <<"y","o","u">>,
    <<"y","o","u","r">>, <<"y","o","u","r","s">>,
    <<"y","o","u","r","s","e","l","f">>,
    <<"y","o","u","r","s","e","l","v","e","s">>, <<"h","e">>, <<"h","i","m">>,
    <<"h","i","s">>, <<"h","i","m","s","e","l","f">>, <<"s","h","e">>,
    <<"h","e","r">>, <<"h","e","r","s">>, <<"h","e","r","s","e","l","f">>,
    <<"i","t">>, <<"i","t","s">>, <<"i","t","s","e","l","f">>,
    <<"t","h","e","y">>, <<"t","h","e","m">>, <<"t","h","e","i","r">>,
    <<"t","h","e","i","r","s">>, <<"t","h","e","m","s","e","l","v","e","s">>,
    <<"w","h","a","t">>, <<"w","h","i","c","h">>, <<"w","h","o">>,
    <<"w","h","o","m">>, <<"t","h","i","s">>, <<"t","h","a","t">>,
    <<"t","h","e","s","e">>, <<"t","h","o","s","e">>, <<"a","m">>, <<"i","s">>,
    <<"a","r","e">>, <<"w","a","s">>, <<"w","e","r","e">>, <<"b","e">>,
    <<"b","e","e","n">>, <<"b","e","i","n","g">>, <<"h","a","v","e">>,
    <<"h","a","s">>, <<"h","a","d">>, <<"h","a","v","i","n","g">>, <<"d","o">>,
    <<"d","o","e","s">>, <<"d","i","d">>, <<"d","o","i","n","g">>, <<"a">>,
    <<"a","n">>, <<"t","h","e">>, <<"a","n","d">>, <<"b","u","t">>, <<"i","f">>,
    <<"o","r">>, <<"b","e","c","a","u","s","e">>, <<"a","s">>,
    <<"u","n","t","i","l">>, <<"w","h","i","l","e">>, <<"o","f">>, <<"a","t">>,
    <<"b","y">>, <<"f","o","r">>, <<"w","i","t","h">>, <<"a","b","o","u","t">>,
    <<"a","g","a","i","n","s","t">>, <<"b","e","t","w","e","e","n">>,
    <<"i","n","t","o">>, <<"t","h","r","o","u","g","h">>,
    <<"d","u","r","i","n","g">>, <<"b","e","f","o","r","e">>,
    <<"a","f","t","e","r">>, <<"a","b","o","v","e">>, <<"b","e","l","o","w">>,
    <<"t","o">>, <<"f","r","o","m">>, <<"u","p">>, <<"d","o","w","n">>,
    <<"i","n">>, <<"o","u","t">>, <<"o","n">>, <<"o","f","f">>,
    <<"o","v","e","r">>, <<"u","n","d","e","r">>, <<"a","g","a","i","n">>,
    <<"f","u","r","t","h","e","r">>, <<"t","h","e","n">>, <<"o","n","c","e">>,
    <<"h","e","r","e">>, <<"t","h","e","r","e">>, <<"w","h","e","n">>,
    <<"w","h","e","r","e">>, <<"w","h","y">>, <<"h","o","w">>, <<"a","l","l">>,
    <<"a","n","y">>, <<"b","o","t","h">>, <<"e","a","c","h">>, <<"f","e","w">>,
    <<"m","o","r","e">>, <<"m","o","s","t">>, <<"o","t","h","e","r">>,
    <<"s","o","m","e">>, <<"s","u","c","h">>, <<"n","o">>, <<"n","o","r">>,
    <<"n","o","t">>, <<"o","n","l","y">>, <<"o","w","n">>, <<"s","a","m","e">>,
    <<"s","o">>, <<"t","h","a","n">>, <<"t","o","o">>, <<"v","e","r","y">>,
    <<"s">>, <<"t">>, <<"c","a","n">>, <<"w","i","l","l">>, <<"j","u","s","t">>,
    <<"d","o","n">>, <<"s","h","o","u","l","d">>, <<"n","o","w">>, <<"d">>,
    <<"l","l">>, <<"m">>, <<"o">>, <<"r","e">>, <<"v","e">>, <<"y">>,
    <<"a","i","n">>, <<"a","r","e","n">>, <<"c","o","u","l","d","n">>,
    <<"d","i","d","n">>, <<"d","o","e","s","n">>, <<"h","a","d","n">>,
    <<"h","a","s","n">>, <<"h","a","v","e","n">>, <<"i","s","n">>, <<"m","a">>,
    <<"m","i","g","h","t","n">>, <<"m","u","s","t","n">>,
    <<"n","e","e","d","n">>, <<"s","h","a","n">>,
    <<"s","h","o","u","l","d","n">>, <<"w","a","s","n">>,
    <<"w","e","r","e","n">>, <<"w","o","n">>, <<"w","o","u","l","d","n">> }

IsStopword(token) == lower(token) \in stop_words

remove_stopwords(tokens) == SelectSeq(tokens, LAMBDA t : ~IsStopword(t))

\* the WordNet nouns among the words and stems of the questions modelled
WordNetNouns ==
  { <<"w","a","r">>, <<"c","e","l","l">>, <<"c","o","d","e">>,
    <<"l","o","o","p">>, <<"c","a","p","i","t","a","l">>,
    <<"m","a","p","p","i","n","g">>, <<"x">>, <<"w","i","l","l">> }

\* the detachment rules of WordNet's morphy for nouns: <<suffix, replacement>>
NounRules ==
  { << <<"s">>, <<>> >>, << <<"s","e","s">>, <<"s">> >>,
    << <<"x","e","s">>, <<"x">> >>, << <<"z","e","s">>, <<"z">> >>,
    << <<"c","h","e","s">>, <<"c","h">> >>, << <<"s","h","e","s">>, <<"s","h">> >>,
    << <<"m","e","n">>, <<"m","a","n">> >>, << <<"i","e","s">>, <<"y">> >> }

HasSuffix(word, suffix) ==
  /\ Len(suffix) <= Len(word)
  /\ SubSeq(word, Len(word) - Len(suffix) + 1, Len(word)) = suffix

\* WordNetLemmatizer.lemmatize(token): the shortest form of the token that
\* WordNet knows, the token itself when it knows none
LemmatizeToken(token) ==
  LET forms == { token } \cup
               { SubSeq(token, 1, Len(token) - Len(r[1])) \o r[2] :
                   r \in { r \in NounRules : HasSuffix(token, r[1]) } }
      known == forms \cap WordNetNouns
  IN  IF known = {} THEN token
      ELSE CHOOSE f \in known : \A g \in known : Len(f) <= Len(g)

lemmatize(tokens) == [i \in DOMAIN tokens |-> LemmatizeToken(tokens[i])]

\* TextPreprocessor.preprocess: <<processed_text, tokens>>
preprocess(text) ==
  With(clean_text(text), LAMBDA cleaned :
    With(tokenize(lower(cleaned)), LAMBDA words :
      With(lemmatize(remove_stopwords(words)), LAMBDA tokens :
        <<Join(tokens), tokens>>)))

\* str.strip, on the one kind of whitespace modelled
strip(text) ==
  IF \A i \in DOMAIN text : IsSpace(text[i]) THEN <<>>
  ELSE LET a == CHOOSE i \in DOMAIN text :
                  ~IsSpace(text[i]) /\ \A k \in 1..(i - 1) : IsSpace(text[k])
           b == CHOOSE i \in DOMAIN text :
                  ~IsSpace(text[i]) /\ \A k \in (i + 1)..Len(text) : IsSpace(text[k])
       IN  SubSeq(text, a, b)

----------------------------------------------------------------------------
(* Keyword Fallback Resolver (backend/ml_model.py, apply_keyword_fallback) *)

\* position p of text (between its characters p and p + 1) is a \b
WordBoundary(text, p) ==
  (p >= 1 /\ p <= Len(text) /\ IsWordChar(text[p]))
    # (p + 1 >= 1 /\ p + 1 <= Len(text) /\ IsWordChar(text[p + 1]))

\* re.search(re.escape(keyword), text): the keyword anywhere in the text
KeywordFound_anywhere(text, keyword) ==
  \E i \in 1..Len(text) : MatchesAt(text, i, keyword)

\* re.search(r'\b' + re.escape(keyword) + r'\b', text)
KeywordFound(text, keyword) ==
  \E i \in 1..Len(text) :
    /\ MatchesAt(text, i, keyword)
    /\ WordBoundary(text, i - 1)
    /\ WordBoundary(text, i + Len(keyword) - 1)

count_keyword_matches(text, keywords) ==
  Cardinality({ k \in DOMAIN keywords : KeywordFound(text, keywords[k]) })

cs_keywords ==
  <<
    <<"p","y","t","h","o","n">>,
    <<"j","a","v","a">>,
    <<"c","o","d","e">>,
    <<"p","r","o","g","r","a","m","m","i","n","g">>,
    <<"a","l","g","o","r","i","t","h","m">>,
    <<"f","u","n","c","t","i","o","n">>,
    <<"v","a","r","i","a","b","l","e">>,
    <<"l","o","o","p">>,
    <<"a","r","r","a","y">>,
    <<"c","l","a","s","s">>,
    <<"o","b","j","e","c","t">>,
    <<"s","o","f","t","w","a","r","e">>,
    <<"d","a","t","a","b","a","s","e">>,
    <<"a","p","i">>,
    <<"h","t","m","l">>,
    <<"c","s","s">>,
    <<"j","a","v","a","s","c","r","i","p","t">>,
    <<"c","o","m","p","u","t","e","r">>
  >>

math_keywords ==
  <<
    <<"c","a","l","c","u","l","u","s">>,
    <<"d","e","r","i","v","a","t","i","v","e">>,
    <<"i","n","t","e","g","r","a","l">>,
    <<"a","l","g","e","b","r","a">>,
    <<"e","q","u","a","t","i","o","n">>,
    <<"s","o","l","v","e">>,
    <<"c","a","l","c","u","l","a","t","e">>,
    <<"t","h","e","o","r","e","m">>,
    <<"p","r","o","o","f">>,
    <<"m","a","t","r","i","x">>,
    <<"v","e","c","t","o","r">>,
    <<"g","e","o","m","e","t","r","y">>,
    <<"t","r","i","g","o","n","o","m","e","t","r","y">>,
    <<"s","t","a","t","i","s","t","i","c","s">>,
    <<"p","r","o","b","a","b","i","l","i","t","y">>
  >>

bio_keywords ==
  <<
    <<"c","e","l","l">>,
    <<"d","n","a">>,
    <<"p","h","o","t","o","s","y","n","t","h","e","s","i","s">>,
    <<"e","v","o","l","u","t","i","o","n">>,
    <<"o","r","g","a","n","i","s","m">>,
    <<"b","a","c","t","e","r","i","a">>,
    <<"v","i","r","u","s">>,
    <<"p","r","o","t","e","i","n">>,
    <<"g","e","n","e">>,
    <<"b","i","o","l","o","g","y">>,
    <<"s","p","e","c","i","e","s">>
  >>

chem_keywords ==
  <<
    <<"a","t","o","m">>,
    <<"m","o","l","e","c","u","l","e">>,
    <<"c","h","e","m","i","c","a","l">>,
    <<"r","e","a","c","t","i","o","n">>,
    <<"e","l","e","m","e","n","t">>,
    <<"c","o","m","p","o","u","n","d">>,
    <<"b","o","n","d">>,
    <<"a","c","i","d">>,
    <<"b","a","s","e">>,
    <<"c","h","e","m","i","s","t","r","y">>,
    <<"p","e","r","i","o","d","i","c">>
  >>

phys_keywords ==
  <<
    <<"f","o","r","c","e">>,
    <<"v","e","l","o","c","i","t","y">>,
    <<"a","c","c","e","l","e","r","a","t","i","o","n">>,
    <<"e","n","e","r","g","y">>,
    <<"m","o","t","i","o","n">>,
    <<"g","r","a","v","i","t","y">>,
    <<"w","a","v","e">>,
    <<"e","l","e","c","t","r","i","c","i","t","y">>,
    <<"p","h","y","s","i","c","s">>,
    <<"m","o","m","e","n","t","u","m">>
  >>

eng_keywords ==
  <<
    <<"s","h","a","k","e","s","p","e","a","r","e">>,
    <<"p","o","e","m">>,
    <<"n","o","v","e","l">>,
    <<"l","i","t","e","r","a","t","u","r","e">>,
    <<"a","u","t","h","o","r">>,
    <<"m","e","t","a","p","h","o","r">>,
    <<"g","r","a","m","m","a","r">>,
    <<"w","r","i","t","i","n","g">>,
    <<"e","s","s","a","y">>,
    <<"s","t","o","r","y">>
  >>

hist_keywords ==
  <<
    <<"w","a","r">>,
    <<"a","n","c","i","e","n","t">>,
    <<"e","m","p","i","r","e">>,
    <<"c","i","v","i","l","i","z","a","t","i","o","n">>,
    <<"c","e","n","t","u","r","y">>,
    <<"r","e","v","o","l","u","t","i","o","n">>,
    <<"h","i","s","t","o","r","i","c","a","l">>,
    <<"h","i","s","t","o","r","y">>,
    <<"p","r","e","s","i","d","e","n","t">>
  >>

geo_keywords ==
  <<
    <<"c","a","p","i","t","a","l">>,
    <<"c","o","u","n","t","r","y">>,
    <<"c","o","n","t","i","n","e","n","t">>,
    <<"o","c","e","a","n">>,
    <<"m","o","u","n","t","a","i","n">>,
    <<"r","i","v","e","r">>,
    <<"c","l","i","m","a","t","e">>,
    <<"g","e","o","g","r","a","p","h","y">>,
    <<"m","a","p">>,
    <<"l","o","c","a","t","i","o","n">>
  >>
\* the lexicon, in the insertion order of the dict
keyword_map ==
  << [subject |-> "Computer Science", keywords |-> cs_keywords],
     [subject |-> "Mathematics",      keywords |-> math_keywords],
     [subject |-> "Biology",          keywords |-> bio_keywords],
     [subject |-> "Chemistry",        keywords |-> chem_keywords],
     [subject |-> "Physics",          keywords |-> phys_keywords],
     [subject |-> "English",          keywords |-> eng_keywords],
     [subject |-> "History",          keywords |-> hist_keywords],
     [subject |-> "Geography",        keywords |-> geo_keywords] >>

\* matches per entry of keyword_map, for the lowercased question
Matches(question_text) ==
  With(lower(question_text), LAMBDA question_lower :
    [i \in DOMAIN keyword_map |->
       count_keyword_matches(question_lower, keyword_map[i].keywords)])

\* the entries put into subject_scores, in insertion order
ScoredEntries(matches) ==
  SelectSeq([i \in DOMAIN matches |-> i], LAMBDA i : matches[i] > 0)

\* the key a scan keeping the latest of equal values ends with
BestMatch_latest(matches) ==
  With(ScoredEntries(matches), LAMBDA scored :
    scored[CHOOSE k \in DOMAIN scored :
             /\ \A j \in DOMAIN scored : matches[scored[j]] <= matches[scored[k]]
             /\ \A j \in (k + 1)..Len(scored) :
                  matches[scored[j]] < matches[scored[k]]])

\* max(subject_scores, key=subject_scores.get): the first key, in iteration
\* order, whose value no other key's value exceeds
BestMatch(matches) ==
  With(ScoredEntries(matches), LAMBDA scored :
    scored[CHOOSE k \in DOMAIN scored :
             /\ \A j \in DOMAIN scored : matches[scored[j]] <= matches[scored[k]]
             /\ \A j \in 1..(k - 1) : matches[scored[j]] < matches[scored[k]]])

\* a threshold at the confidence of the default prediction
LowConfidence_half == Pct(50)

\* the confidence below which classify_question and the resolver act
LowConfidence == Pct(40)

\* 0.50 + 0.15 * max_matches, without the cap
NewConfidence_uncapped(max_matches) == Pct(50) + max_matches * Pct(15)

\* min(0.75, 0.50 + 0.10 * max_matches)
NewConfidence_tenth(max_matches) == Min(Pct(75), Pct(50) + max_matches * Pct(10))

\* min(0.75, 0.20 + 0.15 * max_matches)
NewConfidence_low(max_matches) == Min(Pct(75), Pct(20) + max_matches * Pct(15))

\* min(0.75, 0.50 + 0.15 * max_matches)
NewConfidence(max_matches) == Min(Pct(75), Pct(50) + max_matches * Pct(15))

\* the resolver taking the best entry of keyword_map whatever its count
FallbackOn_unscored(matches, predicted_subject, predicted_conf) ==
  With(CHOOSE k \in DOMAIN matches :
         /\ \A j \in DOMAIN matches : matches[j] <= matches[k]
         /\ \A j \in 1..(k - 1) : matches[j] < matches[k],
       LAMBDA best_match :
         IF predicted_conf < LowConfidence
         THEN <<keyword_map[best_match].subject,
                NewConfidence(matches[best_match])>>
         ELSE <<predicted_subject, predicted_conf>>)

\* apply_keyword_fallback, given the match counts of the question:
\* <<subject, confidence>>
FallbackOn(matches, predicted_subject, predicted_conf) ==
  IF ScoredEntries(matches) # <<>>
  THEN With(BestMatch(matches), LAMBDA best_match :
         With(matches[best_match], LAMBDA max_matches :
           IF max_matches > 0 /\ predicted_conf < LowConfidence
           THEN <<keyword_map[best_match].subject, NewConfidence(max_matches)>>
           ELSE <<predicted_subject, predicted_conf>>))
  ELSE <<predicted_subject, predicted_conf>>


----------------------------------------------------------------------------
(* The questions modelled, by name                                         *)

QuestionText ==
  [
    \* ""
    empty |->
      <<>>,
    \* "x"
    one_char |->
      <<"x">>,
    \* "?!"
    punctuation |->
      <<"?","!">>,
    \* "what is the capital of France"
    france |->
      <<"w","h","a","t"," ","i","s"," ","t","h","e"," ","c","a","p","i","t","a","l"," ","o","f"," ","F","r","a","n","c","e">>,
    \* "Python JAVA code loop"
    code |->
      <<"P","y","t","h","o","n"," ","J","A","V","A"," ","c","o","d","e"," ","l","o","o","p">>,
    \* "solve the cell"
    tie |->
      <<"s","o","l","v","e"," ","t","h","e"," ","c","e","l","l">>,
    \* "computer map of the river"
    rivers |->
      <<"c","o","m","p","u","t","e","r"," ","m","a","p"," ","o","f"," ","t","h","e"," ","r","i","v","e","r">>,
    \* "warm apiary mapping"
    substrings |->
      <<"w","a","r","m"," ","a","p","i","a","r","y"," ","m","a","p","p","i","n","g">>,
    \* "map-reduce api_key"
    boundaries |->
      <<"m","a","p","-","r","e","d","u","c","e"," ","a","p","i","_","k","e","y">>,
    \* "http://war.io"
    url |->
      <<"h","t","t","p",":","/","/","w","a","r",".","i","o">>,
    \* "me@map.io wars"
    mail |->
      <<"m","e","@","m","a","p",".","i","o"," ","w","a","r","s">>
  ]

Questions == DOMAIN QuestionText

\* a function as a table of its values (computed once, not at each use)
Table(f) == f @@ <<>>

\* preprocess_input(question)[0], for each question
Processed == Table([q \in Questions |-> preprocess(QuestionText[q])[1]])

\* the match counts of the keyword scan, for each question
subject_scores == Table([q \in Questions |-> Table(Matches(QuestionText[q]))])

apply_keyword_fallback(question, predicted_subject, predicted_conf) ==
  FallbackOn(subject_scores[question], predicted_subject, predicted_conf)

----------------------------------------------------------------------------
(* Classifier Pair and Model Persistence Layer (backend/ml_model.py)       *)

\* model_type
Tasks == {"subject", "difficulty"}

\* self.subjects
subjects ==
  {"Mathematics", "Physics", "Chemistry", "Biology", "English", "History",
   "Geography"}

\* self.difficulties
difficulties == {"Easy", "Medium", "Hard"}

\* the labels in the order numpy.unique sorts them (classes_ of a classifier)
LabelOrder ==
  <<"Biology", "Chemistry", "Computer Science", "Easy", "English", "Geography",
    "Hard", "History", "Mathematics", "Medium", "Physics">>

\* A Python object held in a field or pickled in a file: a pipeline (kind
\* GradientBoosting, RandomForest or Dummy), a LabelEncoder, or one of the
\* three placeholders below.  corpus names the corpus it was fitted on.
Obj(kind, corpus, classes, fitted) ==
  [kind |-> kind, corpus |-> corpus, classes |-> classes, fitted |-> fitted]

\* self.model = None
None == Obj("None", "", {}, FALSE)

\* os.path.exists(path) is false
Absent == Obj("absent", "", {}, FALSE)

\* a file that exists and that pickle.load raises on
Corrupt == Obj("corrupt", "", {}, FALSE)

\* self.label_encoder = LabelEncoder()
NewEncoder == Obj("LabelEncoder", "", {}, FALSE)

\* the classifier train puts in the pipeline
PipelineKind(task) ==
  IF task = "subject" THEN "GradientBoosting" ELSE "RandomForest"

\* sample_texts and sample_labels of _train_default_model, labels only
DefaultCorpus(task) ==
  [name   |-> "sample",
   labels |-> IF task = "subject"
              THEN <<"Mathematics", "Physics", "Chemistry", "Biology",
                     "English", "History", "Geography">>
              ELSE <<"Easy", "Medium", "Hard">>]

\* What train_models.py trains on, labels only: the records of
\* data/training_data.json, whose subjects are whatever was generated or
\* stored (Computer Science among them) and may all be the same, or the
\* sample questions of the script when there are no records.
TrainingSets ==
  { [name       |-> "script_samples",
     subject    |-> <<"Mathematics", "Physics", "Chemistry", "Biology",
                      "English", "History", "Geography">>,
     difficulty |-> <<"Medium", "Medium", "Easy", "Medium", "Easy", "Easy",
                      "Hard">>],
    [name       |-> "training_data",
     subject    |-> <<"Physics", "Computer Science", "Physics", "History">>,
     difficulty |-> <<"Easy", "Hard", "Easy", "Medium">>],
    [name       |-> "one_class",
     subject    |-> <<"History", "History">>,
     difficulty |-> <<"Medium", "Medium">>] }

\* What can go wrong during one call, beyond what the files hold:
\*   preprocess  preprocess_input raises (an NLTK resource is missing)
\*   predict     the pipeline's predict or predict_proba raises
\*   fit         every fit of an ensemble pipeline raises
\*   fit_corpus  the fit of an ensemble on the caller's corpus raises
\*   save        the model file cannot be opened for writing
\*   print       the console cannot encode the message apply_keyword_fallback
\*               prints when it replaces a prediction (UnicodeEncodeError)
FaultKinds == {"preprocess", "predict", "fit", "fit_corpus", "save", "print"}

\* at most this many kinds of fault during one call
MaxFaults == 1

FaultSets(kinds) == { f \in SUBSET kinds : Cardinality(f) <= MaxFaults }

\* how many _train_default_model frames fit on the interpreter's stack
StackLimit == 2

\* The state one MLModel method works on: the instance's fields, its two
\* files, and counts of what the call has done so far.
Fresh(model_file, encoder_file) ==
  [model |-> None, label_encoder |-> NewEncoder, is_trained |-> FALSE,
   model_file |-> model_file, encoder_file |-> encoder_file,
   loads |-> 0, defaults |-> 0, fits |-> 0]

\* save_model writing the model file and not the encoder file
save_model_model_only(c, faults) ==
  IF "save" \in faults THEN c ELSE [c EXCEPT !.model_file = c.model]

\* MLModel.save_model: an error is printed and swallowed
save_model(c, faults) ==
  IF "save" \in faults THEN c
  ELSE [c EXCEPT !.model_file = c.model, !.encoder_file = c.label_encoder]

\* self.model.fit(texts, labels) of an ensemble pipeline raises for a
\* reason outside the labels
FitRaises(corpus, faults) ==
  \/ "fit" \in faults
  \/ corpus.name # "sample" /\ "fit_corpus" \in faults

\* GradientBoostingClassifier.fit raises ValueError on labels of fewer than
\* two classes; RandomForestClassifier fits them
TooFewClasses(task, corpus) ==
  PipelineKind(task) = "GradientBoosting" /\ Cardinality(Range(corpus.labels)) < 2

\* self.model.fit(texts, labels) raises in train
FitFails(task, corpus, faults) ==
  FitRaises(corpus, faults) \/ TooFewClasses(task, corpus)

RECURSIVE train(_, _, _, _, _)
RECURSIVE train_default_model(_, _, _, _)

\* train whose except clause only prints
train_keeps_pipeline(c, task, corpus, faults, depth) ==
  With([c EXCEPT
          !.label_encoder =
            Obj("LabelEncoder", corpus.name, Range(corpus.labels), TRUE),
          !.model = Obj(PipelineKind(task), corpus.name, {}, FALSE),
          !.fits = @ + 1],
       LAMBDA c1 :
         IF ~FitFails(task, corpus, faults)
         THEN [c |-> With([c1 EXCEPT
                             !.model = Obj(PipelineKind(task), corpus.name,
                                           Range(corpus.labels), TRUE),
                             !.is_trained = TRUE],
                          LAMBDA c2 : save_model(c2, faults)),
               raised |-> FALSE]
         ELSE [c |-> c1, raised |-> FALSE])

\* MLModel.train(texts, labels), entered with depth frames of
\* _train_default_model on the stack: [c, raised]
train(c, task, corpus, faults, depth) ==
  With([c EXCEPT
          !.label_encoder =
            Obj("LabelEncoder", corpus.name, Range(corpus.labels), TRUE),
          !.model = Obj(PipelineKind(task), corpus.name, {}, FALSE),
          !.fits = @ + 1],
       LAMBDA c1 :
         IF ~FitFails(task, corpus, faults)
         THEN [c |-> With([c1 EXCEPT
                             !.model = Obj(PipelineKind(task), corpus.name,
                                           Range(corpus.labels), TRUE),
                             !.is_trained = TRUE],
                          LAMBDA c2 : save_model(c2, faults)),
               raised |-> FALSE]
         ELSE train_default_model(c1, task, faults, depth + 1))

\* _train_default_model with no except clause around its call of train
train_default_model_uncaught(c, task, faults, depth) ==
  IF depth > StackLimit THEN [c |-> c, raised |-> TRUE]
  ELSE train([c EXCEPT !.defaults = @ + 1], task, DefaultCorpus(task),
             faults, depth)

\* MLModel._train_default_model, as frame number depth of its kind; the
\* frame that does not fit on the stack raises RecursionError
train_default_model(c, task, faults, depth) ==
  IF depth > StackLimit THEN [c |-> c, raised |-> TRUE]
  ELSE With(train([c EXCEPT !.defaults = @ + 1], task, DefaultCorpus(task),
                  faults, depth),
            LAMBDA r :
              IF ~r.raised THEN r
              ELSE [c |-> [r.c EXCEPT
                             !.model = Obj("Dummy", "sample",
                                           Range(DefaultCorpus(task).labels),
                                           TRUE),
                             !.is_trained = TRUE,
                             !.fits = @ + 1],
                    raised |-> FALSE])

\* the except clause of load_model, entered with the instance in c
LoadFailed(c, task, faults) ==
  With(train_default_model(c, task, faults, 1),
       LAMBDA r : [c |-> r.c, raised |-> r.raised, ret |-> FALSE])

\* load_model that trains the default model whatever the files hold
load_model_retrains(c, task, faults) ==
  With([c EXCEPT !.loads = @ + 1], LAMBDA c0 :
    With(train_default_model(c0, task, faults, 1), LAMBDA r :
      [c |-> r.c, raised |-> r.raised, ret |-> FALSE]))

\* load_model with no except clause
load_model_uncaught(c, task, faults) ==
  With([c EXCEPT !.loads = @ + 1], LAMBDA c0 :
    IF c0.model_file.kind # "absent" /\ c0.encoder_file.kind # "absent"
    THEN IF c0.model_file.kind = "corrupt"
           THEN [c |-> c0, raised |-> TRUE, ret |-> FALSE]
         ELSE IF c0.encoder_file.kind = "corrupt"
           THEN [c |-> [c0 EXCEPT !.model = c0.model_file],
                 raised |-> TRUE, ret |-> FALSE]
         ELSE [c |-> [c0 EXCEPT !.model = c0.model_file,
                                !.label_encoder = c0.encoder_file,
                                !.is_trained = TRUE],
               raised |-> FALSE, ret |-> TRUE]
    ELSE With(train_default_model(c0, task, faults, 1), LAMBDA r :
           [c |-> r.c, raised |-> r.raised, ret |-> FALSE]))

\* load_model that reads the files when both are there and does nothing
\* otherwise
load_model_files_only(c, task, faults) ==
  With([c EXCEPT !.loads = @ + 1], LAMBDA c0 :
    IF c0.model_file.kind # "absent" /\ c0.encoder_file.kind # "absent"
    THEN IF c0.model_file.kind = "corrupt" THEN LoadFailed(c0, task, faults)
         ELSE IF c0.encoder_file.kind = "corrupt"
                THEN LoadFailed([c0 EXCEPT !.model = c0.model_file], task, faults)
         ELSE [c |-> [c0 EXCEPT !.model = c0.model_file,
                                !.label_encoder = c0.encoder_file,
                                !.is_trained = TRUE],
               raised |-> FALSE, ret |-> TRUE]
    ELSE [c |-> c0, raised |-> FALSE, ret |-> FALSE])

\* MLModel.load_model: [c, raised, ret]
load_model(c, task, faults) ==
  With([c EXCEPT !.loads = @ + 1], LAMBDA c0 :
    IF c0.model_file.kind # "absent" /\ c0.encoder_file.kind # "absent"
    THEN IF c0.model_file.kind = "corrupt" THEN LoadFailed(c0, task, faults)
         ELSE IF c0.encoder_file.kind = "corrupt"
                THEN LoadFailed([c0 EXCEPT !.model = c0.model_file], task, faults)
         ELSE [c |-> [c0 EXCEPT !.model = c0.model_file,
                                !.label_encoder = c0.encoder_file,
                                !.is_trained = TRUE],
               raised |-> FALSE, ret |-> TRUE]
    ELSE With(train_default_model(c0, task, faults, 1), LAMBDA r :
           IF r.raised THEN LoadFailed(r.c, task, faults)
           ELSE [c |-> r.c, raised |-> FALSE, ret |-> FALSE]))

\* MLModel._get_default_prediction
get_default_prediction(task) ==
  IF task = "subject" THEN <<"Mathematics", Pct(50)>> ELSE <<"Medium", Pct(50)>>

\* max(probabilities) as the ensembles may report it
Probabilities == {Pct(30), Pct(40), Scale}

\* an ensemble answers one of the first MaxAnswers of its classes_
MaxAnswers == 1

\* the share of label in labels
Prior(labels, label) ==
  (Cardinality({ i \in DOMAIN labels : labels[i] = label }) * Scale) \div Len(labels)

\* classes_ of a classifier fitted on these labels
SortedClasses(classes) == SelectSeq(LabelOrder, LAMBDA l : l \in classes)

\* What predict and predict_proba of a fitted pipeline may answer on a text,
\* as <<prediction, max(probabilities)>>.  The ensembles are not modelled:
\* a class with a probability that can be the largest of |classes| values
\* summing to one.  DummyClassifier(strategy='prior') answers the most
\* frequent label of its corpus, the first in sorted order among equals, and
\* that label's share.
ModelOutputs(model, task) ==
  With(SortedClasses(model.classes), LAMBDA order :
    IF model.kind = "Dummy"
    THEN With([k \in DOMAIN order |->
                 Prior(DefaultCorpus(task).labels, order[k])] @@ <<>>,
              LAMBDA prior :
                { <<order[k], prior[k]>> :
                    k \in { k \in DOMAIN order :
                              /\ \A j \in DOMAIN order : prior[j] <= prior[k]
                              /\ \A j \in 1..(k - 1) : prior[j] < prior[k] } })
    ELSE { <<order[k], p>> :
             k \in 1..Min(MaxAnswers, Len(order)),
             p \in { p \in Probabilities :
                       /\ p * Len(order) >= Scale
                       /\ Len(order) = 1 => p = Scale } })

\* the answer of a pipeline that is not asked
NoAnswer == <<"", 0>>

\* min(max(float(confidence), 0.0), 1.0)
Clamp(confidence) == Min(Max(confidence, 0), Scale)

\* how a call of predict ends.  consulted: self.model.predict was called
\* (on c.model); caught: the except clause ran.
Prediction(c, pair, consulted, caught) ==
  [c |-> c, label |-> pair[1], conf |-> pair[2], raised |-> FALSE,
   consulted |-> consulted, caught |-> caught]

\* predict without the test on the length of the processed text
predict_any_length(c, task, q, faults, answer) ==
  With(IF c.model = None THEN load_model(c, task, faults)
       ELSE [c |-> c, raised |-> FALSE, ret |-> FALSE],
       LAMBDA l :
         IF l.raised
           THEN Prediction(l.c, get_default_prediction(task), FALSE, TRUE)
         ELSE IF "preprocess" \in faults
           THEN Prediction(l.c, get_default_prediction(task), FALSE, TRUE)
         ELSE IF ~l.c.model.fitted \/ "predict" \in faults
           THEN Prediction(l.c, get_default_prediction(task), TRUE, TRUE)
         ELSE Prediction(l.c, <<answer[1], Clamp(answer[2])>>, TRUE, FALSE))

\* predict calling load_model whether or not the instance holds a model
predict_reloads(c, task, q, faults, answer) ==
  With(load_model(c, task, faults),
       LAMBDA l :
         IF l.raised
           THEN Prediction(l.c, get_default_prediction(task), FALSE, TRUE)
         ELSE IF "preprocess" \in faults
           THEN Prediction(l.c, get_default_prediction(task), FALSE, TRUE)
         ELSE IF Processed[q] = <<>> \/ Len(strip(Processed[q])) < 2
           THEN Prediction(l.c, get_default_prediction(task), FALSE, FALSE)
         ELSE IF ~l.c.model.fitted \/ "predict" \in faults
           THEN Prediction(l.c, get_default_prediction(task), TRUE, TRUE)
         ELSE Prediction(l.c, <<answer[1], Clamp(answer[2])>>, TRUE, FALSE))

\* MLModel.predict(text) on the question named q, the pipeline answering
\* answer if it is asked
predict(c, task, q, faults, answer) ==
  With(IF c.model = None THEN load_model(c, task, faults)
       ELSE [c |-> c, raised |-> FALSE, ret |-> FALSE],
       LAMBDA l :
         IF l.raised
           THEN Prediction(l.c, get_default_prediction(task), FALSE, TRUE)
         ELSE IF "preprocess" \in faults
           THEN Prediction(l.c, get_default_prediction(task), FALSE, TRUE)
         ELSE IF Processed[q] = <<>> \/ Len(strip(Processed[q])) < 2
           THEN Prediction(l.c, get_default_prediction(task), FALSE, FALSE)
         ELSE IF ~l.c.model.fitted \/ "predict" \in faults
           THEN Prediction(l.c, get_default_prediction(task), TRUE, TRUE)
         ELSE Prediction(l.c, <<answer[1], Clamp(answer[2])>>, TRUE, FALSE))

\* the answers the pipeline of the instance may give during that call
PossibleAnswers(c, task, q, faults) ==
  With(predict(c, task, q, faults, NoAnswer), LAMBDA p :
    IF p.consulted /\ ~p.caught THEN ModelOutputs(p.c.model, task)
    ELSE {NoAnswer})

\* a dict with the confidence of the subject in both confidence fields
Classification_one_confidence(subject, subject_conf, difficulty, difficulty_conf) ==
  [subject |-> subject, subject_confidence |-> subject_conf,
   difficulty |-> difficulty, difficulty_confidence |-> subject_conf]

\* the dict classify_question returns from its try block
Classification(subject, subject_conf, difficulty, difficulty_conf) ==
  [subject |-> subject, subject_confidence |-> subject_conf,
   difficulty |-> difficulty, difficulty_confidence |-> difficulty_conf]

\* a dict that says there was an error and holds no classification
ErrorClassification_bare == [status |-> "error", error |-> "str(e)"]

\* the dict classify_question returns from its except clause
ErrorClassification ==
  [status |-> "error", subject |-> "General", subject_confidence |-> Pct(50),
   difficulty |-> "Medium", difficulty_confidence |-> Pct(50),
   error |-> "str(e)"]

\* apply_keyword_fallback prints that it replaces the prediction, and the
\* print raises
FallbackPrintRaises(q, predicted_conf, faults) ==
  /\ "print" \in faults
  /\ predicted_conf < LowConfidence
  /\ ScoredEntries(subject_scores[q]) # <<>>

\* classify_question with no except clause here or in predict: what either
\* predict call caught goes to the caller
classify_question_uncaught(cs, cd, q, faults, as, ad) ==
  With(predict(cs, "subject", q, faults, as), LAMBDA ps :
    With(IF ps.raised \/ ps.caught THEN Prediction(cd, NoAnswer, FALSE, FALSE)
         ELSE predict(cd, "difficulty", q, faults, ad),
         LAMBDA pd :
           [subject |-> ps, difficulty |-> pd,
            fallback |-> ps.conf < LowConfidence, failed |-> FALSE,
            raised |-> \/ ps.raised \/ ps.caught \/ pd.raised \/ pd.caught
                       \/ FallbackPrintRaises(q, ps.conf, faults),
            result |-> With(IF ps.conf < LowConfidence
                            THEN apply_keyword_fallback(q, ps.label, ps.conf)
                            ELSE <<ps.label, ps.conf>>,
                            LAMBDA final :
                              Classification(final[1], final[2],
                                             pd.label, pd.conf))]))

\* classify_question(question_text) on the question named q, the two
\* instances being in cs and cd and their pipelines answering as and ad.
\*   subject, difficulty  how the two predict calls ended
\*   fallback             apply_keyword_fallback was called
\*   failed               the except clause ran
classify_question(cs, cd, q, faults, as, ad) ==
  With(predict(cs, "subject", q, faults, as), LAMBDA ps :
    With(IF ps.raised THEN Prediction(cd, NoAnswer, FALSE, FALSE)
         ELSE predict(cd, "difficulty", q, faults, ad),
         LAMBDA pd :
           IF ps.raised \/ pd.raised
           THEN [subject |-> ps, difficulty |-> pd, fallback |-> FALSE,
                 failed |-> TRUE, raised |-> FALSE,
                 result |-> ErrorClassification]
           ELSE IF FallbackPrintRaises(q, ps.conf, faults)
           THEN [subject |-> ps, difficulty |-> pd, fallback |-> TRUE,
                 failed |-> TRUE, raised |-> FALSE,
                 result |-> ErrorClassification]
           ELSE With(IF ps.conf < LowConfidence
                     THEN apply_keyword_fallback(q, ps.label, ps.conf)
                     ELSE <<ps.label, ps.conf>>,
                     LAMBDA final :
                       [subject |-> ps, difficulty |-> pd,
                        fallback |-> ps.conf < LowConfidence,
                        failed |-> FALSE, raised |-> FALSE,
                        result |-> Classification(final[1], final[2],
                                                  pd.label, pd.conf)])))

----------------------------------------------------------------------------
(* The process: the two module-level instances, their files, and the last  *)
(* call made                                                               *)

VARIABLES
  model,          \* [task -> Obj]: subject_classifier.model, difficulty_classifier.model
  label_encoder,  \* [task -> Obj]
  is_trained,     \* [task -> BOOLEAN]
  model_file,     \* [task -> Obj]: models/<task>_model.pkl
  encoder_file,   \* [task -> Obj]: models/<task>_encoder.pkl
  trainings,      \* runs of train_models.py so far
  training_data,  \* the records of data/training_data.json
  pc,             \* [task -> where the thread loading that task's model is]
  last            \* the last call and what it returned

vars == <<model, label_encoder, is_trained, model_file, encoder_file,
          trainings, training_data, pc, last>>

\* runs of train_models.py looked at
MaxTrainings == 1

\* the pipeline an earlier run of train_models.py left in the models directory
Shipped(task) ==
  Obj(PipelineKind(task), "script_samples",
      IF task = "subject" THEN subjects ELSE difficulties, TRUE)

ShippedEncoder(task) ==
  Obj("LabelEncoder", "script_samples",
      IF task = "subject" THEN subjects ELSE difficulties, TRUE)

\* what the models directory may hold for a task when the process starts:
\* <<model file, encoder file>>

\* a file of the models directory in one of the conditions the process can
\* find it in
FileIn(condition, written) ==
  IF condition = "absent" THEN Absent
  ELSE IF condition = "corrupt" THEN Corrupt ELSE written

\* the models directory when the process starts: for each task both files
\* written, one of them unreadable, or none there
InitialDirectories ==
  { [t \in Tasks |-> <<FileIn(d[t][1], Shipped(t)),
                       FileIn(d[t][2], ShippedEncoder(t))>>] :
      d \in [Tasks -> { <<"written", "written">>, <<"corrupt", "written">>,
                        <<"written", "corrupt">>, <<"absent", "absent">> }] }

\* the instance of a task and its files, at the start of a call
Instance(task) ==
  [model |-> model[task], label_encoder |-> label_encoder[task],
   is_trained |-> is_trained[task],
   model_file |-> model_file[task], encoder_file |-> encoder_file[task],
   loads |-> 0, defaults |-> 0, fits |-> 0]

\* what last keeps of one predict call: how it ended, whether the model
\* reference was empty when it began and fitted when it ended, and the
\* load_model, _train_default_model and fit calls made
Call(p, before) ==
  [label |-> p.label, conf |-> p.conf, raised |-> p.raised,
   consulted |-> p.consulted, caught |-> p.caught,
   was_empty |-> before = None, fitted |-> p.c.model.fitted,
   loads |-> p.c.loads, defaults |-> p.c.defaults, fits |-> p.c.fits]

\* the part of a classify_question outcome that is about one task
Of(o, task) == IF task = "subject" THEN o.subject ELSE o.difficulty

\* the questions callers ask
Asked == {"empty", "one_char", "punctuation", "france", "code"}

\* the kinds of fault that can show during a call of classify_question:
\* nothing is fitted or saved once both model references are set
ClassifyFaultKinds ==
  {"preprocess", "predict"} \cup
  (IF \E t \in Tasks : model[t] = None THEN {"fit", "save"} ELSE {})

\* subject_classifier = SubjectClassifier(); difficulty_classifier = ...
Init ==
  /\ model = [t \in Tasks |-> None]
  /\ label_encoder = [t \in Tasks |-> NewEncoder]
  /\ is_trained = [t \in Tasks |-> FALSE]
  /\ \E d \in InitialDirectories :
       /\ model_file = [t \in Tasks |-> d[t][1]]
       /\ encoder_file = [t \in Tasks |-> d[t][2]]
  /\ trainings = 0
  /\ training_data = <<>>
  /\ pc = [t \in Tasks |-> "idle"]
  /\ last = [op |-> "start"]

\* a caller (a route, a script) calls classify_question
ClassifyQuestion ==
  \E q \in Asked, faults \in FaultSets(ClassifyFaultKinds),
     cs \in {Instance("subject")}, cd \in {Instance("difficulty")} :
    \E as \in PossibleAnswers(cs, "subject", q, faults),
       ad \in PossibleAnswers(cd, "difficulty", q, faults) :
      \E o \in { classify_question(cs, cd, q, faults, as, ad) } :
        /\ model' = [t \in Tasks |-> Of(o, t).c.model]
        /\ label_encoder' = [t \in Tasks |-> Of(o, t).c.label_encoder]
        /\ is_trained' = [t \in Tasks |-> Of(o, t).c.is_trained]
        /\ model_file' = [t \in Tasks |-> Of(o, t).c.model_file]
        /\ encoder_file' = [t \in Tasks |-> Of(o, t).c.encoder_file]
        /\ last' = [op |-> "classify", question |-> q,
                    raised |-> o.raised, result |-> o.result,
                    fallback |-> o.fallback,
                    subject |-> Call(o.subject, model["subject"]),
                    difficulty |-> Call(o.difficulty, model["difficulty"])]
        /\ UNCHANGED <<trainings, training_data, pc>>

\* train_models.py, run in a process of its own: a new instance of each
\* classifier is trained, the subject one first
TrainModels ==
  /\ trainings < MaxTrainings
  /\ \E data \in TrainingSets,
        faults \in FaultSets({"fit", "fit_corpus", "save"}) :
       \E rs \in { train(Fresh(model_file["subject"], encoder_file["subject"]),
                          "subject",
                          [name |-> data.name, labels |-> data.subject],
                          faults, 0) } :
         \E rd \in { IF rs.raised
                      THEN [c |-> Fresh(model_file["difficulty"],
                                        encoder_file["difficulty"]),
                            raised |-> FALSE]
                      ELSE train(Fresh(model_file["difficulty"],
                                       encoder_file["difficulty"]),
                                 "difficulty",
                                 [name |-> data.name,
                                  labels |-> data.difficulty],
                                 faults, 0) } :
           /\ model_file' = [t \in Tasks |->
                               IF t = "subject" THEN rs.c.model_file
                               ELSE rd.c.model_file]
           /\ encoder_file' = [t \in Tasks |->
                                 IF t = "subject" THEN rs.c.encoder_file
                                 ELSE rd.c.encoder_file]
           /\ trainings' = trainings + 1
           /\ last' = [op |-> "train", data |-> data.name,
                       raised |-> rs.raised \/ rd.raised,
                       subject |-> rs.c, difficulty |-> rd.c]
           /\ UNCHANGED <<model, label_encoder, is_trained, training_data, pc>>

Next == ClassifyQuestion \/ TrainModels

Spec == Init /\ [][Next]_vars


----------------------------------------------------------------------------
(* apply_keyword_fallback, called on its own                               *)

\* the predictions passed in
PredictedSubjects == {"Physics", "Biology", "Geography"}

PredictedConfidences == {Scale \div 7, Pct(30), Pct(39), Pct(40), Pct(90)}

InitFallback ==
  /\ model = [t \in Tasks |-> None]
  /\ label_encoder = [t \in Tasks |-> NewEncoder]
  /\ is_trained = [t \in Tasks |-> FALSE]
  /\ model_file = [t \in Tasks |-> Absent]
  /\ encoder_file = [t \in Tasks |-> Absent]
  /\ trainings = 0
  /\ training_data = <<>>
  /\ pc = [t \in Tasks |-> "idle"]
  /\ \E q \in Questions, s \in PredictedSubjects, c \in PredictedConfidences :
       last = [op |-> "call", question |-> q,
               predicted_subject |-> s, predicted_conf |-> c]

\* apply_keyword_fallback(question_text, predicted_subject, predicted_conf);
\* scores are the match counts it found, per entry of keyword_map
ApplyKeywordFallback ==
  /\ last.op = "call"
  /\ last' = [op |-> "fallback", question |-> last.question,
              predicted_subject |-> last.predicted_subject,
              predicted_conf |-> last.predicted_conf,
              scores |-> subject_scores[last.question],
              result |-> apply_keyword_fallback(last.question,
                                                last.predicted_subject,
                                                last.predicted_conf)]
  /\ UNCHANGED <<model, label_encoder, is_trained, model_file, encoder_file,
                 trainings, training_data, pc>>

NextFallback == ApplyKeywordFallback

SpecFallback == InitFallback /\ [][NextFallback]_vars

----------------------------------------------------------------------------
(* preprocess, applied to a text and then to its own processed text        *)

\* the words of the texts: "HTTPS", "wills", "What", "is", "cells", "R2-D2", "a@b.io", "www.x"
TextWords ==
  << <<"H","T","T","P","S">>,
     <<"w","i","l","l","s">>,
     <<"W","h","a","t">>,
     <<"i","s">>,
     <<"c","e","l","l","s">>,
     <<"R","2","-","D","2">>,
     <<"a","@","b",".","i","o">>,
     <<"w","w","w",".","x">> >>

MaxWords == 2

\* the texts of one word to MaxWords words, a space between two words
Texts ==
  { Join([i \in DOMAIN ws |-> TextWords[ws[i]]]) :
      ws \in UNION { [1..n -> DOMAIN TextWords] : n \in 1..MaxWords } }

InitPreprocess ==
  /\ model = [t \in Tasks |-> None]
  /\ label_encoder = [t \in Tasks |-> NewEncoder]
  /\ is_trained = [t \in Tasks |-> FALSE]
  /\ model_file = [t \in Tasks |-> Absent]
  /\ encoder_file = [t \in Tasks |-> Absent]
  /\ trainings = 0
  /\ training_data = <<>>
  /\ pc = [t \in Tasks |-> "idle"]
  /\ \E text \in Texts : last = [op |-> "text", text |-> text]

\* processed_text, tokens = preprocess_input(text)
Preprocess ==
  /\ last.op = "text"
  /\ \E r \in { preprocess(last.text) } :
       last' = [op |-> "preprocess", text |-> last.text,
                processed_text |-> r[1], tokens |-> r[2]]
  /\ UNCHANGED <<model, label_encoder, is_trained, model_file, encoder_file,
                 trainings, training_data, pc>>

\* preprocess_input(processed_text), the text being the one returned before
PreprocessAgain ==
  /\ last.op = "preprocess"
  /\ \E r \in { preprocess(last.processed_text) } :
       last' = [op |-> "again", text |-> last.text,
                processed_text |-> last.processed_text, tokens |-> last.tokens,
                again_text |-> r[1], again_tokens |-> r[2]]
  /\ UNCHANGED <<model, label_encoder, is_trained, model_file, encoder_file,
                 trainings, training_data, pc>>

NextPreprocess == Preprocess \/ PreprocessAgain

SpecPreprocess == InitPreprocess /\ [][NextPreprocess]_vars

----------------------------------------------------------------------------
(* The methods of an instance, called on their own                         *)

\* the fields and files of a task become those of c
Store(task, c) ==
  /\ model' = [model EXCEPT ![task] = c.model]
  /\ label_encoder' = [label_encoder EXCEPT ![task] = c.label_encoder]
  /\ is_trained' = [is_trained EXCEPT ![task] = c.is_trained]
  /\ model_file' = [model_file EXCEPT ![task] = c.model_file]
  /\ encoder_file' = [encoder_file EXCEPT ![task] = c.encoder_file]

\* the questions predict is called on
Predicted == {"one_char", "france"}

\* instance.load_model(); last keeps the two files as they were found
LoadModel ==
  \E t \in Tasks, faults \in FaultSets({"fit", "save"}) :
    \E o \in { load_model(Instance(t), t, faults) } :
      /\ Store(t, o.c)
      /\ last' = [op |-> "load", task |-> t, faults |-> faults,
                  ret |-> o.ret, raised |-> o.raised,
                  model_file |-> model_file[t],
                  encoder_file |-> encoder_file[t],
                  defaults |-> o.c.defaults, fits |-> o.c.fits]
      /\ UNCHANGED <<trainings, training_data, pc>>

\* instance.train(texts, labels); fit_failed: the fit on these labels raised
Train ==
  /\ trainings < MaxTrainings
  /\ \E t \in Tasks, data \in TrainingSets,
        faults \in FaultSets({"fit", "fit_corpus", "save"}) :
       \E corpus \in { [name |-> data.name, labels |-> data[t]] } :
         \E o \in { train(Instance(t), t, corpus, faults, 0) } :
           /\ Store(t, o.c)
           /\ trainings' = trainings + 1
           /\ last' = [op |-> "train", task |-> t, faults |-> faults,
                       corpus |-> corpus, raised |-> o.raised,
                       fit_failed |-> FitFails(t, corpus, faults),
                       defaults |-> o.c.defaults, fits |-> o.c.fits]
           /\ UNCHANGED <<training_data, pc>>

\* instance.predict(text)
Predict ==
  \E t \in Tasks, q \in Predicted :
    \E c \in { Instance(t) },
       faults \in FaultSets({"preprocess", "predict"} \cup
                            (IF model[t] = None THEN {"fit", "save"} ELSE {})) :
      \E answer \in PossibleAnswers(c, t, q, faults) :
        \E p \in { predict(c, t, q, faults, answer) } :
          /\ Store(t, p.c)
          /\ last' = [op |-> "predict", task |-> t, question |-> q,
                      faults |-> faults, call |-> Call(p, c.model)]
          /\ UNCHANGED <<trainings, training_data, pc>>

NextLifecycle == LoadModel \/ Train \/ Predict

SpecLifecycle == Init /\ [][NextLifecycle]_vars

----------------------------------------------------------------------------
(* Cold start under a threaded server: one request thread is inside       *)
(* load_model for a task, statement by statement, while other requests     *)
(* call predict on the same instance.  pc[task] is the statement the       *)
(* loading thread has completed.                                           *)

\* predict, lines 147-148: the reference is empty and load_model is entered
EnterLoad(t) ==
  /\ pc[t] = "idle"
  /\ model[t] = None
  /\ pc' = [pc EXCEPT ![t] = "load"]
  /\ UNCHANGED <<model, label_encoder, is_trained, model_file, encoder_file,
                 trainings, training_data, last>>

\* load_model, lines 197-199: self.model = pickle.load(f), or on to
\* _train_default_model when a file is missing or the model file unreadable
ReadModelFile(t) ==
  /\ pc[t] = "load"
  /\ IF /\ model_file[t].kind \notin {"absent", "corrupt"}
        /\ encoder_file[t].kind # "absent"
     THEN /\ model' = [model EXCEPT ![t] = model_file[t]]
          /\ pc' = [pc EXCEPT ![t] = "model_read"]
     ELSE /\ pc' = [pc EXCEPT ![t] = "train"]
          /\ UNCHANGED model
  /\ UNCHANGED <<label_encoder, is_trained, model_file, encoder_file,
                 trainings, training_data, last>>

\* load_model, lines 201-206: self.label_encoder = pickle.load(f);
\* self.is_trained = True, or the except clause
ReadEncoderFile(t) ==
  /\ pc[t] = "model_read"
  /\ IF encoder_file[t].kind # "corrupt"
     THEN /\ label_encoder' = [label_encoder EXCEPT ![t] = encoder_file[t]]
          /\ is_trained' = [is_trained EXCEPT ![t] = TRUE]
          /\ pc' = [pc EXCEPT ![t] = "done"]
     ELSE /\ pc' = [pc EXCEPT ![t] = "train"]
          /\ UNCHANGED <<label_encoder, is_trained>>
  /\ UNCHANGED <<model, model_file, encoder_file, trainings, training_data,
                 last>>

\* train on the sample corpus, lines 79-80: self.label_encoder.fit(...)
FitEncoder(t) ==
  /\ pc[t] = "train"
  /\ label_encoder' =
       [label_encoder EXCEPT
          ![t] = Obj("LabelEncoder", "sample",
                     Range(DefaultCorpus(t).labels), TRUE)]
  /\ pc' = [pc EXCEPT ![t] = "encoder"]
  /\ UNCHANGED <<model, is_trained, model_file, encoder_file, trainings,
                 training_data, last>>

\* train, lines 83-119: self.model = Pipeline([...]), not fitted yet
AssignPipeline(t) ==
  /\ pc[t] = "encoder"
  /\ model' = [model EXCEPT ![t] = Obj(PipelineKind(t), "sample", {}, FALSE)]
  /\ pc' = [pc EXCEPT ![t] = "pipeline"]
  /\ UNCHANGED <<label_encoder, is_trained, model_file, encoder_file,
                 trainings, training_data, last>>

\* train, lines 122-123: self.model.fit(texts, labels); self.is_trained = True
FitPipeline(t) ==
  /\ pc[t] = "pipeline"
  /\ model' = [model EXCEPT
                 ![t] = Obj(PipelineKind(t), "sample",
                            Range(DefaultCorpus(t).labels), TRUE)]
  /\ is_trained' = [is_trained EXCEPT ![t] = TRUE]
  /\ pc' = [pc EXCEPT ![t] = "fitted"]
  /\ UNCHANGED <<label_encoder, model_file, encoder_file, trainings,
                 training_data, last>>

\* train, line 130: self.save_model(), and the return to predict
SaveModel(t) ==
  /\ pc[t] = "fitted"
  /\ model_file' = [model_file EXCEPT ![t] = model[t]]
  /\ encoder_file' = [encoder_file EXCEPT ![t] = label_encoder[t]]
  /\ pc' = [pc EXCEPT ![t] = "done"]
  /\ UNCHANGED <<model, label_encoder, is_trained, trainings, training_data,
                 last>>

\* predict of another request on the same instance, the reference not
\* being empty: observed and encoder are what it finds in the instance
ConcurrentPredict(t) ==
  /\ model[t] # None
  /\ \E q \in Predicted, c \in { Instance(t) } :
       \E answer \in PossibleAnswers(c, t, q, {}) :
         \E p \in { predict(c, t, q, {}, answer) } :
           last' = [op |-> "predict", task |-> t, question |-> q,
                    loader |-> pc[t], observed |-> model[t],
                    encoder |-> label_encoder[t],
                    label |-> p.label, conf |-> p.conf, caught |-> p.caught]
  /\ UNCHANGED <<model, label_encoder, is_trained, model_file, encoder_file,
                 trainings, training_data, pc>>

NextConcurrent ==
  \E t \in Tasks :
    \/ EnterLoad(t)
    \/ ReadModelFile(t)
    \/ ReadEncoderFile(t)
    \/ FitEncoder(t)
    \/ AssignPipeline(t)
    \/ FitPipeline(t)
    \/ SaveModel(t)
    \/ ConcurrentPredict(t)

SpecConcurrent == Init /\ [][NextConcurrent]_vars

----------------------------------------------------------------------------
(* The HTTP layer (backend/routes.py)                                      *)

\* the bounds /api/ask puts on the length of a question
MinQuestionLength == 3

MaxQuestionLength == 5000

\* dict.get(key, default)
Get(d, key, default) == IF key \in DOMAIN d THEN d[key] ELSE default

\* The strings of this layer are written as what they are made of: copies of
\* a base (a text, or a list of tokens) with a space between two copies, and
\* pad spaces before the first and after the last.
Text(base, copies, pad) ==
  [base |-> base, copies |-> IF base = <<>> THEN 0 ELSE copies, pad |-> pad]

\* the question sent many times over in one string: its processed text is
\* empty and no keyword is in it, however many the copies
LongQuestion == "punctuation"

\* the most copies of a question that MaxQuestionLength characters hold
CopiesThatFit(q) == (MaxQuestionLength + 1) \div (Len(QuestionText[q]) + 1)

\* the questions of the batches, around the two limits: " x ", and "?!"
\* as often as fits in MaxQuestionLength characters and once more
BatchBodies ==
  { [text |-> "one_char", copies |-> 1, pad |-> 1] } \cup
  { [text |-> LongQuestion, copies |-> CopiesThatFit(LongQuestion) + over,
     pad |-> 0] : over \in 0..1 }

\* the "question" field of the request bodies: text names the question
Bodies ==
  BatchBodies \cup { [text |-> "code", copies |-> 1, pad |-> 0] }

\* str.strip of a body
Strip(b) == [b EXCEPT !.pad = 0]

\* len of a body
Length(b) ==
  With(Len(QuestionText[b.text]), LAMBDA n :
    (IF n = 0 THEN 0 ELSE b.copies * n + (b.copies - 1)) + 2 * b.pad)

\* preprocess_input(question)[1], for each question
Tokens == Table([q \in Questions |-> preprocess(QuestionText[q])[2]])

\* ask_question with no try around preprocess_input
PreprocessOrFallback_uncaught(question, faults) ==
  IF "preprocess" \in faults
  THEN [raised |-> TRUE, processed_text |-> Text(<<>>, 0, 0),
        tokens |-> Text(<<>>, 0, 0)]
  ELSE [raised |-> FALSE,
        processed_text |-> Text(Processed[question.text], question.copies, 0),
        tokens |-> Text(Tokens[question.text], question.copies, 0)]

\* the preprocessing step of ask_question: preprocess_input(question), and
\* the question and its whitespace split when that raises
PreprocessOrFallback(question, faults) ==
  IF "preprocess" \in faults
  THEN [raised |-> FALSE,
        processed_text |->
          Text(QuestionText[question.text], question.copies, 0),
        tokens |->
          Text(Split(QuestionText[question.text], 1), question.copies, 0)]
  ELSE [raised |-> FALSE,
        processed_text |-> Text(Processed[question.text], question.copies, 0),
        tokens |-> Text(Tokens[question.text], question.copies, 0)]

\* what the request to the explanation service ends with: a completion, a
\* body without the fields read from it, a status other than 200, or no
\* response in time
GroqResponses == {"completion", "malformed", "refused", "timeout"}

\* get_explanation with no except clause for what is not a RequestException
get_explanation_uncaught(response) ==
  [status |-> IF response = "completion" THEN "success"
              ELSE IF response = "malformed" THEN "raised" ELSE "error",
   raised |-> response = "malformed"]

\* GroqClient.get_explanation, the service answering with response
get_explanation(response) ==
  [status |-> IF response = "completion" THEN "success" ELSE "error",
   raised |-> FALSE]

\* a response of /api/ask sent before the question is classified
Refused(status, code, cs, cd) ==
  [status |-> status, code |-> code, classified |-> FALSE, failed |-> FALSE,
   explained |-> FALSE, records |-> <<>>, cs |-> cs, cd |-> cd]

\* ask_question, the body holding the question b, the explanation service
\* ending with groq, the pipelines answering as and ad:
\*   classified  classify_question was called
\*   failed      the except clause of classify_question ran
\*   explained   get_ai_explanation was called
\*   records     what is appended to the stored interactions (id, time stamp,
\*               explanation and token counts left out)
ask_question(b, faults, groq, cs, cd, as, ad) ==
  With(Strip(b), LAMBDA question :
    IF Length(question) < MinQuestionLength
      THEN Refused(400, "QUESTION_TOO_SHORT", cs, cd)
    ELSE IF Length(question) > MaxQuestionLength
      THEN Refused(400, "QUESTION_TOO_LONG", cs, cd)
    ELSE With(PreprocessOrFallback(question, faults), LAMBDA p :
      IF p.raised THEN Refused(500, "INTERNAL_ERROR", cs, cd)
      ELSE With(classify_question(cs, cd, question.text, faults, as, ad),
                LAMBDA o :
        IF o.raised
        THEN [Refused(500, "INTERNAL_ERROR", o.subject.c, o.difficulty.c)
                EXCEPT !.classified = TRUE]
        ELSE With([question |-> question,
                   processed_text |-> p.processed_text,
                   tokens |-> p.tokens,
                   subject |-> Get(o.result, "subject", "Unknown"),
                   difficulty |-> Get(o.result, "difficulty", "Unknown"),
                   subject_confidence |->
                     Get(o.result, "subject_confidence", 0),
                   difficulty_confidence |->
                     Get(o.result, "difficulty_confidence", 0)],
                  LAMBDA interaction_data :
          With(get_explanation(groq), LAMBDA groq_response :
            [status |-> IF groq_response.status = "success" THEN 200 ELSE 500,
             code |-> IF groq_response.raised THEN "INTERNAL_ERROR"
                      ELSE IF groq_response.status = "success"
                        THEN "QUESTION_PROCESSED"
                      ELSE "API_ERROR",
             classified |-> TRUE, failed |-> o.failed, explained |-> TRUE,
             asked |-> interaction_data,
             records |-> IF groq_response.status = "success"
                         THEN <<interaction_data>> ELSE <<>>,
             cs |-> o.subject.c, cd |-> o.difficulty.c])))))

\* one entry of the results of batch_ask_questions
BatchResult(q, o) ==
  IF o.raised THEN [question |-> q, classified |-> TRUE, error |-> "str(e)"]
  ELSE [question |-> q, classified |-> TRUE,
        subject |-> Get(o.result, "subject", None),
        difficulty |-> Get(o.result, "difficulty", None),
        subject_confidence |-> Get(o.result, "subject_confidence", None),
        difficulty_confidence |->
          Get(o.result, "difficulty_confidence", None)]

RECURSIVE BatchOutcomes(_, _, _, _)
\* the loop of batch_ask_questions over the questions: the ways it can end,
\* each the results and the two instances
BatchOutcomes(cs, cd, questions, faults) ==
  IF questions = <<>> THEN { [results |-> <<>>, cs |-> cs, cd |-> cd] }
  ELSE With(Strip(questions[1]), LAMBDA q :
    IF Length(q) < MinQuestionLength
    THEN { [rest EXCEPT !.results =
              << [question |-> q, classified |-> FALSE,
                  error |-> "Question too short"] >> \o @] :
             rest \in BatchOutcomes(cs, cd, Tail(questions), faults) }
    ELSE UNION {
           { [rest EXCEPT !.results = <<BatchResult(q, o)>> \o @] :
               rest \in BatchOutcomes(o.subject.c, o.difficulty.c,
                                      Tail(questions), faults) } :
             o \in { classify_question(cs, cd, q.text, faults, as, ad) :
                       as \in PossibleAnswers(cs, "subject", q.text, faults),
                       ad \in PossibleAnswers(cd, "difficulty", q.text,
                                              faults) } })

\* stored interactions kept in the state
MaxRecords == 1

\* questions in one batch
MaxBatch == 1

\* the kinds of fault looked at in this layer
HttpFaultKinds == {"preprocess", "print"}

\* the fields and files of both tasks become those of cs and cd
StoreBoth(cs, cd) ==
  /\ model' = [subject |-> cs.model, difficulty |-> cd.model]
  /\ label_encoder' =
       [subject |-> cs.label_encoder, difficulty |-> cd.label_encoder]
  /\ is_trained' = [subject |-> cs.is_trained, difficulty |-> cd.is_trained]
  /\ model_file' = [subject |-> cs.model_file, difficulty |-> cd.model_file]
  /\ encoder_file' =
       [subject |-> cs.encoder_file, difficulty |-> cd.encoder_file]

\* the models directory when the server starts: written by an earlier run
\* of train_models.py, or empty
HttpDirectories ==
  { [t \in Tasks |-> <<FileIn(d, Shipped(t)), FileIn(d, ShippedEncoder(t))>>] :
      d \in {"written", "absent"} }

InitHttp ==
  /\ model = [t \in Tasks |-> None]
  /\ label_encoder = [t \in Tasks |-> NewEncoder]
  /\ is_trained = [t \in Tasks |-> FALSE]
  /\ \E d \in HttpDirectories :
       /\ model_file = [t \in Tasks |-> d[t][1]]
       /\ encoder_file = [t \in Tasks |-> d[t][2]]
  /\ trainings = 0
  /\ training_data = <<>>
  /\ pc = [t \in Tasks |-> "idle"]
  /\ last = [op |-> "start"]

\* POST /api/ask; of a stored interaction the state keeps the name of its
\* question
AskQuestion ==
  /\ Len(training_data) < MaxRecords
  /\ \E b \in Bodies, faults \in FaultSets(HttpFaultKinds),
        groq \in GroqResponses,
        cs \in {Instance("subject")}, cd \in {Instance("difficulty")} :
       \E as \in PossibleAnswers(cs, "subject", b.text, faults),
          ad \in PossibleAnswers(cd, "difficulty", b.text, faults) :
         \E r \in { ask_question(b, faults, groq, cs, cd, as, ad) } :
           /\ StoreBoth(r.cs, r.cd)
           /\ training_data' =
                training_data \o
                [i \in DOMAIN r.records |-> r.records[i].question.text]
           /\ last' = [op |-> "ask", body |-> b, faults |-> faults,
                       response |-> groq,
                       groq |-> get_explanation(groq).status,
                       status |-> r.status, code |-> r.code,
                       classified |-> r.classified, failed |-> r.failed,
                       explained |-> r.explained,
                       asked |-> IF r.explained THEN <<r.asked>> ELSE <<>>]
           /\ UNCHANGED <<trainings, pc>>

\* POST /api/batch-ask, with a list of one to MaxBatch questions
BatchAskQuestions ==
  \E n \in 1..MaxBatch, faults \in FaultSets(HttpFaultKinds) :
    \E questions \in [1..n -> BatchBodies] :
      \E r \in BatchOutcomes(Instance("subject"), Instance("difficulty"),
                             questions, faults) :
        /\ StoreBoth(r.cs, r.cd)
        /\ last' = [op |-> "batch", questions |-> questions,
                    faults |-> faults, status |-> 200,
                    code |-> "BATCH_PROCESSED", results |-> r.results]
        /\ UNCHANGED <<trainings, training_data, pc>>

NextHttp == AskQuestion \/ BatchAskQuestions

SpecHttp == InitHttp /\ [][NextHttp]_vars

----------------------------------------------------------------------------
(* classify_question, called once in a process that has just started       *)

InitClassify ==
  /\ model = [t \in Tasks |-> None]
  /\ label_encoder = [t \in Tasks |-> NewEncoder]
  /\ is_trained = [t \in Tasks |-> FALSE]
  /\ \E d \in HttpDirectories :
       /\ model_file = [t \in Tasks |-> d[t][1]]
       /\ encoder_file = [t \in Tasks |-> d[t][2]]
  /\ trainings = 0
  /\ training_data = <<>>
  /\ pc = [t \in Tasks |-> "idle"]
  /\ \E q \in Questions, faults \in FaultSets({"predict", "fit", "print"}) :
       last = [op |-> "call", question |-> q, faults |-> faults]

\* classify_question(question_text); failed: its except clause ran
ClassifyCall ==
  /\ last.op = "call"
  /\ \E cs \in {Instance("subject")}, cd \in {Instance("difficulty")} :
       \E as \in PossibleAnswers(cs, "subject", last.question, last.faults),
          ad \in PossibleAnswers(cd, "difficulty", last.question, last.faults) :
         \E o \in { classify_question(cs, cd, last.question, last.faults,
                                      as, ad) } :
           /\ StoreBoth(o.subject.c, o.difficulty.c)
           /\ last' = [op |-> "classified", question |-> last.question,
                       faults |-> last.faults, result |-> o.result,
                       failed |-> o.failed, fallback |-> o.fallback,
                       subject |-> Call(o.subject, model["subject"]),
                       difficulty |-> Call(o.difficulty, model["difficulty"])]
           /\ UNCHANGED <<trainings, training_data, pc>>

SpecClassify == InitClassify /\ [][ClassifyCall]_vars

----------------------------------------------------------------------------
(* /api/ask, the requests served by threads of their own                   *)

\* the requests in flight
Requests == {"a", "b"}

\* of a stored interaction the state keeps the request it came from;
\* last.loaded is the training_data variable of each handler
InitAsks ==
  /\ model = [t \in Tasks |-> None]
  /\ label_encoder = [t \in Tasks |-> NewEncoder]
  /\ is_trained = [t \in Tasks |-> FALSE]
  /\ \E d \in HttpDirectories :
       /\ model_file = [t \in Tasks |-> d[t][1]]
       /\ encoder_file = [t \in Tasks |-> d[t][2]]
  /\ trainings = 0
  /\ \E stored \in {<<>>, <<"earlier">>} :
       /\ training_data = stored
       /\ last = [op |-> "asks", before |-> Len(stored),
                  loaded |-> [r \in Requests |-> <<>>]]
  /\ pc = [r \in Requests |-> "received"]

\* ask_question up to interaction_data: the request is refused, or
\* classified and explained
ExplainQuestion(r) ==
  /\ pc[r] = "received"
  /\ \E b \in Bodies, faults \in FaultSets(HttpFaultKinds),
        groq \in GroqResponses,
        cs \in {Instance("subject")}, cd \in {Instance("difficulty")} :
       \E as \in PossibleAnswers(cs, "subject", b.text, faults),
          ad \in PossibleAnswers(cd, "difficulty", b.text, faults) :
         \E o \in { ask_question(b, faults, groq, cs, cd, as, ad) } :
           /\ StoreBoth(o.cs, o.cd)
           /\ pc' = [pc EXCEPT ![r] = IF o.records # <<>> THEN "explained"
                                      ELSE "refused"]
  /\ UNCHANGED <<trainings, training_data, last>>

\* training_data = load_training_data()
LoadTrainingData(r) ==
  /\ pc[r] = "explained"
  /\ last' = [last EXCEPT !.loaded[r] = training_data]
  /\ pc' = [pc EXCEPT ![r] = "loaded"]
  /\ UNCHANGED <<model, label_encoder, is_trained, model_file, encoder_file,
                 trainings, training_data>>

\* training_data.append(interaction_data); save_training_data(training_data)
\* and the 200 response
SaveTrainingData(r) ==
  /\ pc[r] = "loaded"
  /\ training_data' = Append(last.loaded[r], r)
  /\ pc' = [pc EXCEPT ![r] = "answered"]
  /\ UNCHANGED <<model, label_encoder, is_trained, model_file, encoder_file,
                 trainings, last>>

NextAsks ==
  \E r \in Requests :
    ExplainQuestion(r) \/ LoadTrainingData(r) \/ SaveTrainingData(r)

SpecAsks == InitAsks /\ [][NextAsks]_vars

----------------------------------------------------------------------------
(* The routes over the stored interactions (backend/routes.py)             *)

\* the stored interactions looked at: of a record its id, subject and
\* difficulty
StoredRecords ==
  { [id |-> i, subject |-> k[1], difficulty |-> k[2]] :
      i \in {"t1", "t2"}, k \in { <<"Physics", "Easy">>, <<"History", "Hard">> } }

\* records in the store
MaxStored == 3

\* seq[start:end] for 0 <= start
Slice(seq, start, end) == SubSeq(seq, start + 1, Min(end, Len(seq)))

\* delete_record removing the first record that has the id
delete_record_first(store, record_id) ==
  IF \A i \in DOMAIN store : store[i].id # record_id
  THEN [status |-> 404, code |-> "RECORD_NOT_FOUND", store |-> store]
  ELSE With(CHOOSE i \in DOMAIN store :
              /\ store[i].id = record_id
              /\ \A j \in 1..(i - 1) : store[j].id # record_id,
            LAMBDA i :
              [status |-> 200, code |-> "RECORD_DELETED",
               store |-> SubSeq(store, 1, i - 1) \o
                         SubSeq(store, i + 1, Len(store))])

\* delete_record(record_id) on the store: the response and the store after
delete_record(store, record_id) ==
  With(SelectSeq(store, LAMBDA d : d.id # record_id), LAMBDA kept :
    IF Len(kept) = Len(store)
    THEN [status |-> 404, code |-> "RECORD_NOT_FOUND", store |-> store]
    ELSE [status |-> 200, code |-> "RECORD_DELETED", store |-> kept])

\* get_history rounding the number of pages down
get_history_floor(store, page, per_page, subject_filter, difficulty_filter) ==
  With(SelectSeq(store, LAMBDA d :
         /\ subject_filter # "" => d.subject = subject_filter
         /\ difficulty_filter # "" => d.difficulty = difficulty_filter),
       LAMBDA filtered :
         IF per_page = 0
         THEN [status |-> 500, code |-> "HISTORY_ERROR", data |-> <<>>,
               total_records |-> 0, total_pages |-> 0]
         ELSE [status |-> 200, code |-> "",
               data |-> Slice(filtered, (page - 1) * per_page,
                              (page - 1) * per_page + per_page),
               total_records |-> Len(filtered),
               total_pages |-> Len(filtered) \div per_page])

\* get_history with the query arguments given; a filter of "" is none.
\* per_page = 0 makes the division of the page count raise.
get_history(store, page, per_page, subject_filter, difficulty_filter) ==
  With(SelectSeq(store, LAMBDA d :
         /\ subject_filter # "" => d.subject = subject_filter
         /\ difficulty_filter # "" => d.difficulty = difficulty_filter),
       LAMBDA filtered :
         IF per_page = 0
         THEN [status |-> 500, code |-> "HISTORY_ERROR", data |-> <<>>,
               total_records |-> 0, total_pages |-> 0]
         ELSE [status |-> 200, code |-> "",
               data |-> Slice(filtered, (page - 1) * per_page,
                              (page - 1) * per_page + per_page),
               total_records |-> Len(filtered),
               total_pages |-> (Len(filtered) + per_page - 1) \div per_page])

\* the names bound in the module when a handler runs
ModuleNames ==
  {"os", "json", "sys", "datetime", "Blueprint", "request", "jsonify",
   "Config", "classify_question", "subject_classifier",
   "difficulty_classifier", "get_ai_explanation", "preprocess_input"}

\* export_data with the format argument given: a name that is not bound
\* raises NameError, which the except clause answers
export_data(store, format_type) ==
  IF format_type \in {"json", "csv"}
  THEN IF {"io", "send_file"} \subseteq ModuleNames
          /\ (format_type = "csv" /\ store # <<>> => "csv" \in ModuleNames)
       THEN [status |-> 200, code |-> "", file |-> store]
       ELSE [status |-> 500, code |-> "EXPORT_ERROR", file |-> <<>>]
  ELSE [status |-> 400, code |-> "UNSUPPORTED_FORMAT", file |-> <<>>]

InitStore ==
  /\ model = [t \in Tasks |-> None]
  /\ label_encoder = [t \in Tasks |-> NewEncoder]
  /\ is_trained = [t \in Tasks |-> FALSE]
  /\ model_file = [t \in Tasks |-> Absent]
  /\ encoder_file = [t \in Tasks |-> Absent]
  /\ trainings = 0
  /\ training_data \in UNION { [1..n -> StoredRecords] : n \in 0..MaxStored }
  /\ pc = [t \in Tasks |-> "idle"]
  /\ last = [op |-> "start"]

\* DELETE /api/delete-record/<record_id>
DeleteRecord ==
  \E record_id \in {"t1", "t2", "t3"} :
    \E r \in { delete_record(training_data, record_id) } :
      /\ training_data' = r.store
      /\ last' = [op |-> "delete", record_id |-> record_id,
                  before |-> training_data, status |-> r.status,
                  code |-> r.code]
      /\ UNCHANGED <<model, label_encoder, is_trained, model_file,
                     encoder_file, trainings, pc>>

\* GET /api/history
GetHistory ==
  \E page \in 1..(MaxStored + 1), per_page \in 0..MaxStored,
     subject_filter \in {"", "Physics"}, difficulty_filter \in {"", "Hard"} :
    /\ last' = [op |-> "history", page |-> page, per_page |-> per_page,
                subject_filter |-> subject_filter,
                difficulty_filter |-> difficulty_filter,
                response |-> get_history(training_data, page, per_page,
                                         subject_filter, difficulty_filter)]
    /\ UNCHANGED <<model, label_encoder, is_trained, model_file,
                   encoder_file, trainings, training_data, pc>>

\* GET /api/export
ExportData ==
  \E format_type \in {"csv", "json", "xml"} :
    /\ last' = [op |-> "export", format_type |-> format_type,
                before |-> training_data,
                response |-> export_data(training_data, format_type)]
    /\ UNCHANGED <<model, label_encoder, is_trained, model_file,
                   encoder_file, trainings, training_data, pc>>

SpecStore == InitStore /\ [][DeleteRecord \/ GetHistory \/ ExportData]_vars

----------------------------------------------------------------------------
(* Properties                                                              *)

\* C1: classify_question never lets an exception out to its caller:
\* whatever fails in preprocessing, loading, training or prediction, it
\* returns a dict that has subject, subject_confidence, difficulty and
\* difficulty_confidence.
C1_NeverRaises ==
  last.op = "classify" =>
    /\ ~last.raised
    /\ {"subject", "subject_confidence", "difficulty",
        "difficulty_confidence"} \subseteq DOMAIN last.result

\* a call during which the subject classifier caught an exception
C1_Caught ==
  /\ last.op = "classify"
  /\ last.subject.caught
  /\ ~last.raised
  /\ last.result.subject = "Mathematics"

\* C2: every confidence that predict or classify_question returns, on the
\* model path, the default path, the keyword path and the error path, is in
\* [0.0, 1.0].
C2_ConfidenceRange ==
  last.op = "classify" =>
    \A conf \in {last.subject.conf, last.difficulty.conf,
                 last.result.subject_confidence,
                 last.result.difficulty_confidence} :
      conf >= 0 /\ conf <= Scale

\* the keyword path at its cap: four keywords of one subject matched
C2_Capped ==
  /\ last.op = "classify"
  /\ last.question = "code"
  /\ last.fallback
  /\ last.result.subject_confidence = Pct(75)

\* C3: the subject classify_question returns is one of Mathematics,
\* Physics, Chemistry, Biology, English, History, Geography and the
\* difficulty one of Easy, Medium, Hard.
C3_LabelSet ==
  last.op = "classify" =>
    /\ last.result.subject \in subjects
    /\ last.result.difficulty \in difficulties

\* C4: predict returns the default of its task (Mathematics/0.5,
\* Medium/0.5) without raising when the input normalizes to fewer than two
\* characters (empty, one character, punctuation only) or an internal step
\* raises; in the near-empty case the pipeline is not consulted.
C4_DefaultPrediction ==
  last.op = "classify" =>
    \A t \in Tasks :
      /\ ~last[t].raised
      /\ (last.question \in {"empty", "one_char", "punctuation"}
            \/ last[t].caught) =>
           <<last[t].label, last[t].conf>> =
             (IF t = "subject" THEN <<"Mathematics", Pct(50)>>
              ELSE <<"Medium", Pct(50)>>)
      /\ last.question \in {"empty", "one_char", "punctuation"} =>
           ~last[t].consulted

\* punctuation only, on loaded classifiers and with nothing failing
C4_NearEmpty ==
  /\ last.op = "classify"
  /\ last.question = "punctuation"
  /\ \A t \in Tasks : ~last[t].caught /\ ~last[t].consulted /\ last[t].fitted
  /\ last.result.subject = "Mathematics"
  /\ last.result.subject_confidence = Pct(50)
  /\ last.result.difficulty = "Medium"

\* C5: the keyword resolver is called only when the subject classifier's
\* confidence is strictly below 0.40; at 0.40 or more classify_question
\* returns the classifier's label and confidence unchanged.
C5_Threshold ==
  last.op = "classify" =>
    /\ last.fallback => last.subject.conf < Pct(40)
    /\ last.subject.conf >= Pct(40) =>
         /\ last.result.subject = last.subject.label
         /\ last.result.subject_confidence = last.subject.conf

\* the classifier answers with confidence 0.40 exactly on a question that
\* has a Geography keyword
C5_AtThreshold ==
  /\ last.op = "classify"
  /\ last.question = "france"
  /\ last.subject.consulted /\ ~last.subject.caught
  /\ last.subject.conf = Pct(40)
  /\ ~last.fallback
  /\ last.result.subject = last.subject.label
  /\ last.result.subject # "Geography"

\* C6: called with a confidence below 0.40 on a question whose best subject
\* has n > 0 matches, the resolver returns a subject with n matches and the
\* confidence min(0.75, 0.50 + 0.15 n); "what is the capital of France"
\* gives Geography with 0.65.
C6_NewConfidence ==
  (last.op = "fallback" /\ last.predicted_conf < Pct(40)) =>
    LET n == CHOOSE n \in Range(last.scores) :
               \A k \in Range(last.scores) : k <= n
    IN  /\ n > 0 =>
             /\ last.result[2] = Min(Pct(75), Pct(50) + n * Pct(15))
             /\ \E i \in DOMAIN keyword_map :
                  /\ keyword_map[i].subject = last.result[1]
                  /\ last.scores[i] = n
        /\ last.question = "france" => last.result = <<"Geography", Pct(65)>>

C6_France ==
  /\ last.op = "fallback"
  /\ last.question = "france"
  /\ last.predicted_subject = "Physics"
  /\ last.predicted_conf = Pct(30)
  /\ last.result = <<"Geography", Pct(65)>>

\* C7: when no keyword of any subject matches the question, the resolver
\* returns the predicted subject and confidence as they were passed in.
C7_NoMatch ==
  (last.op = "fallback" /\ \A i \in DOMAIN last.scores : last.scores[i] = 0) =>
    last.result = <<last.predicted_subject, last.predicted_conf>>

C7_Unchanged ==
  /\ last.op = "fallback"
  /\ last.question = "substrings"
  /\ \A i \in DOMAIN last.scores : last.scores[i] = 0
  /\ last.predicted_conf = Pct(30)
  /\ last.result = <<last.predicted_subject, Pct(30)>>

\* C8: matching is whole-word and case-insensitive: a keyword adds to its
\* subject's count exactly when it occurs in the lowercased question with
\* no word character next to it on either side; an occurrence inside a
\* longer word adds nothing, for every keyword of every subject.
C8_WholeWord ==
  last.op = "fallback" =>
    \E text \in { lower(QuestionText[last.question]) } :
      \A i \in DOMAIN keyword_map :
        last.scores[i] =
          Cardinality(
            { k \in DOMAIN keyword_map[i].keywords :
                \E at \in 1..Len(text) :
                  LET after == at + Len(keyword_map[i].keywords[k]) IN
                  /\ MatchesAt(text, at, keyword_map[i].keywords[k])
                  /\ at = 1 \/ ~IsWordChar(text[at - 1])
                  /\ after > Len(text) \/ ~IsWordChar(text[after]) })

\* "warm apiary mapping": war, api and map occur, inside longer words only
C8_InsideWords ==
  /\ last.op = "fallback"
  /\ last.question = "substrings"
  /\ \E at \in 1..Len(QuestionText.substrings) :
       MatchesAt(QuestionText.substrings, at, <<"w", "a", "r">>)
  /\ \A i \in DOMAIN last.scores : last.scores[i] = 0

\* C9: the resolver selects a subject whose count is the maximum over the
\* lexicon, the earliest in the lexicon's insertion order (Computer Science,
\* Mathematics, Biology, Chemistry, Physics, English, History, Geography)
\* among those that tie on it.
C9_EarliestMaximum ==
  /\ [i \in DOMAIN keyword_map |-> keyword_map[i].subject] =
       <<"Computer Science", "Mathematics", "Biology", "Chemistry",
         "Physics", "English", "History", "Geography">>
  /\ (/\ last.op = "fallback"
      /\ last.predicted_conf < Pct(40)
      /\ \E i \in DOMAIN last.scores : last.scores[i] > 0) =>
       \E i \in DOMAIN keyword_map :
         /\ last.result[1] = keyword_map[i].subject
         /\ \A j \in DOMAIN keyword_map : last.scores[j] <= last.scores[i]
         /\ \A j \in 1..(i - 1) : last.scores[j] < last.scores[i]

\* "solve the cell": Mathematics and Biology tie with one match each
C9_Tie ==
  /\ last.op = "fallback"
  /\ last.question = "tie"
  /\ last.predicted_subject = "Biology"
  /\ last.predicted_conf = Pct(30)
  /\ last.scores[2] = 1 /\ last.scores[3] = 1
  /\ last.result[1] = "Mathematics"

C11_LoadResult ==
  last.op = "load" =>
    /\ ~last.raised
    /\ last.ret <=> /\ last.model_file.kind \notin {"absent", "corrupt"}
                    /\ last.encoder_file.kind \notin {"absent", "corrupt"}
    /\ last.ret =>
         /\ last.defaults = 0
         /\ model[last.task] = last.model_file
         /\ label_encoder[last.task] = last.encoder_file
    /\ ~last.ret =>
         /\ last.defaults >= 1
         /\ model[last.task].corpus = "sample"
         /\ model[last.task].fitted

\* a readable model file next to an unreadable encoder file
C11_CorruptEncoder ==
  /\ last.op = "load"
  /\ last.model_file.fitted
  /\ last.encoder_file = Corrupt
  /\ ~last.ret /\ ~last.raised
  /\ last.defaults = 1

\* C12: train never raises; when the fit fails the sample corpus is trained
\* on, and when that fails too the majority-vote classifier is installed,
\* so after train or load_model returns the task has a fitted predictor.
C12_FallbackChain ==
  last.op \in {"train", "load"} =>
    /\ ~last.raised
    /\ model[last.task] # None /\ model[last.task].fitted
    /\ is_trained[last.task]
    /\ (last.op = "train" /\ last.fit_failed) => last.defaults >= 1
    /\ model[last.task].kind = "Dummy" <=>
         ("fit" \in last.faults /\ last.defaults >= 1)

\* train with every ensemble fit failing
C12_Terminal ==
  /\ last.op = "train"
  /\ "fit" \in last.faults
  /\ ~last.raised
  /\ model[last.task].kind = "Dummy"
  /\ model[last.task].fitted

\* C13 as stated: if the fit throws during train(corpus), the instance
\* holds the majority-class predictor, which answers the most frequent
\* label of the training corpus with that label's share as confidence.
C13_MajorityOfCorpus ==
  (last.op = "train" /\ last.fit_failed) =>
    /\ model[last.task].kind = "Dummy"
    /\ \E top \in Range(last.corpus.labels) :
         /\ \A l \in Range(last.corpus.labels) :
              Prior(last.corpus.labels, l) <= Prior(last.corpus.labels, top)
         /\ ModelOutputs(model[last.task], last.task) =
              { <<top, Prior(last.corpus.labels, top)>> }

\* C13, amended: if the fit throws during train(corpus), the instance
\* holds a predictor fitted on the bundled sample corpus: the ensemble of
\* its task, or, when the fit on the sample corpus throws too, the
\* majority-class predictor, which answers the first most frequent label of
\* the sample corpus (Biology, Easy) with that label's share (1/7, 1/3).
C13_SampleFallback ==
  (last.op = "train" /\ last.fit_failed) =>
    /\ model[last.task].fitted
    /\ model[last.task].corpus = "sample"
    /\ IF "fit" \in last.faults
       THEN /\ model[last.task].kind = "Dummy"
            /\ ModelOutputs(model[last.task], last.task) =
                 (IF last.task = "subject" THEN { <<"Biology", Scale \div 7>> }
                  ELSE { <<"Easy", Scale \div 3>> })
       ELSE model[last.task].kind = PipelineKind(last.task)

\* the fit on the caller's corpus fails and the one on the sample corpus
\* does not
C13_DefaultEnsemble ==
  /\ last.op = "train"
  /\ last.task = "subject"
  /\ last.corpus.name = "training_data"
  /\ last.faults = {"fit_corpus"}
  /\ last.fit_failed
  /\ model["subject"].kind = "GradientBoosting"
  /\ model["subject"].corpus = "sample"

\* C16: training either task on labels that are all the same does not
\* raise, and predict then returns that label with confidence 1.0.
C16_SingleClass ==
  (/\ last.op = "train"
   /\ last.faults = {}
   /\ Cardinality(Range(last.corpus.labels)) = 1) =>
    /\ ~last.raised
    /\ \A l \in Range(last.corpus.labels) :
         ModelOutputs(model[last.task], last.task) = { <<l, Scale>> }

\* C14: the model reference is replaced atomically: while train or
\* load_model runs on an instance, a concurrent predict on that instance
\* finds the complete old model or the complete new one, never an unfitted
\* one.
C14_AtomicSwap ==
  last.op = "predict" => last.observed.fitted

C17_Idempotent ==
  /\ last.op \in {"preprocess", "again"} =>
       \A i \in DOMAIN last.tokens :
         \A k \in DOMAIN last.tokens[i] : last.tokens[i][k] \in Range(LowerCase)
  /\ last.op = "again" => last.again_text = last.processed_text

\* C19: a question that /api/ask or /api/batch-ask passes to
\* classify_question is, trimmed, MinQuestionLength to MaxQuestionLength
\* characters long.
C19_Validated ==
  /\ (last.op = "ask" /\ last.classified) =>
       /\ Length(Strip(last.body)) >= MinQuestionLength
       /\ Length(Strip(last.body)) <= MaxQuestionLength
  /\ last.op = "batch" =>
       \A i \in DOMAIN last.results :
         last.results[i].classified =>
           /\ Length(last.results[i].question) >= MinQuestionLength
           /\ Length(last.results[i].question) <= MaxQuestionLength

\* C18: when the except clause of classify_question runs during /api/ask,
\* the handler gets subject General and both confidences 0.5, and goes on to
\* call get_ai_explanation with them.
C18_Degraded ==
  (last.op = "ask" /\ last.failed) =>
    /\ last.explained
    /\ last.code \in {"QUESTION_PROCESSED", "API_ERROR"}
    /\ last.asked[1].subject = "General"
    /\ last.asked[1].subject_confidence = Pct(50)
    /\ last.asked[1].difficulty_confidence = Pct(50)

\* a request whose classification failed was answered with an explanation
C18_ExplainedAnyway ==
  /\ last.op = "ask"
  /\ last.failed
  /\ "print" \in last.faults
  /\ last.status = 200
  /\ last.asked[1].subject = "General"
  /\ training_data # <<>>

\* C20: when preprocess_input raises in /api/ask on a question of valid
\* length, processed_text is the question, tokens is its whitespace split,
\* and the request is classified and explained: it ends as the explanation
\* service decides, not with an internal error.
C20_PreprocessFallback ==
  (/\ last.op = "ask"
   /\ "preprocess" \in last.faults
   /\ Length(Strip(last.body)) >= MinQuestionLength
   /\ Length(Strip(last.body)) <= MaxQuestionLength) =>
    /\ last.classified
    /\ last.explained
    /\ last.asked[1].processed_text =
         Text(QuestionText[last.body.text], last.body.copies, 0)
    /\ last.asked[1].tokens =
         Text(Split(QuestionText[last.body.text], 1), last.body.copies, 0)
    /\ last.status = (IF last.groq = "success" THEN 200 ELSE 500)
    /\ last.code # "INTERNAL_ERROR"

\* "Python JAVA code loop" was stored with itself as processed text and its
\* four words as tokens
C20_FellBack ==
  /\ last.op = "ask"
  /\ "preprocess" \in last.faults
  /\ last.status = 200
  /\ last.body.text = "code"
  /\ last.asked[1].processed_text.base = QuestionText["code"]
  /\ Len(last.asked[1].tokens.base) = 4
  /\ training_data # <<>>

\* C22: a call of train makes at most three fits (the caller's corpus, the
\* sample corpus, the trivial classifier) and enters _train_default_model
\* at most once.
C22_BoundedFits ==
  last.op = "train" => (last.defaults <= 1 /\ last.fits <= 3)

C28_LowMeansNoKeyword ==
  (last.op = "classified" /\ ~last.failed) =>
    /\ (last.fallback /\ ScoredEntries(subject_scores[last.question]) # <<>>) =>
         last.result.subject_confidence \in {Pct(65), Pct(75)}
    /\ last.result.subject_confidence < LowConfidence =>
         /\ ScoredEntries(subject_scores[last.question]) = <<>>
         /\ last.result.subject = last.subject.label
         /\ last.result.subject_confidence = last.subject.conf

\* "warm apiary mapping", answered with a confidence of 0.30 and left so
C28_KeptLow ==
  /\ last.op = "classified"
  /\ last.question = "substrings"
  /\ last.fallback
  /\ last.subject.consulted
  /\ last.result.subject_confidence < LowConfidence
  /\ last.result.subject = last.subject.label

\* C29: predict calls load_model exactly when the instance holds no model,
\* and holds one when it returns; an instance that holds a model keeps it
\* through every later call, whatever is written to the files meanwhile.
C29_LoadOnce ==
  [][\A t \in Tasks :
       /\ model[t] # None =>
            (model'[t] = model[t] /\ label_encoder'[t] = label_encoder[t])
       /\ last'.op = "classify" =>
            /\ last'[t].loads = (IF model[t] = None THEN 1 ELSE 0)
            /\ model'[t] # None]_vars

\* a question classified with the model loaded earlier, after train_models.py
\* has written another one to the files
C29_StaleModel ==
  /\ last.op = "classify"
  /\ ~last.subject.was_empty
  /\ last.subject.loads = 0
  /\ trainings = 1
  /\ model_file["subject"].corpus = "training_data"
  /\ model["subject"].corpus = "script_samples"

\* C30: after train or load_model returns with an ensemble that a fit of
\* train produced (or that load_model read) and no write failed, the model
\* file and the encoder file hold the instance's model and encoder; when
\* save_model fails nothing is raised and the instance is trained and has a
\* fitted model.
C30_Persisted ==
  last.op \in {"train", "load"} =>
    /\ (model[last.task].kind # "Dummy" /\ "save" \notin last.faults) =>
         /\ model_file[last.task] = model[last.task]
         /\ encoder_file[last.task] = label_encoder[last.task]
    /\ "save" \in last.faults =>
         /\ ~last.raised
         /\ is_trained[last.task]
         /\ model[last.task] # None /\ model[last.task].fitted

\* the fit on the caller's corpus failed, the sample corpus was trained on
\* and the files were overwritten with its model and encoder
C30_DefaultSaved ==
  /\ last.op = "train"
  /\ last.fit_failed
  /\ "save" \notin last.faults
  /\ last.defaults = 1
  /\ model[last.task].corpus = "sample"
  /\ model[last.task].kind # "Dummy"
  /\ model_file[last.task] = model[last.task]
  /\ encoder_file[last.task] = label_encoder[last.task]
  /\ encoder_file[last.task].corpus = "sample"

\* C23: get_explanation returns status success or status error and never
\* raises; when /api/ask gets status error it answers 500 API_ERROR and the
\* stored interactions are what they were.
C23_ExplanationError ==
  [][(last'.op = "ask" /\ last'.explained) =>
       /\ last'.groq \in {"success", "error"}
       /\ last'.code \in {"QUESTION_PROCESSED", "API_ERROR"}
       /\ last'.groq = "error" =>
            /\ last'.status = 500
            /\ last'.code = "API_ERROR"
            /\ training_data' = training_data]_vars

\* the service answered 200 with a body that has no choices: the request
\* ended 500 API_ERROR and nothing was stored
C23_MalformedBody ==
  /\ last.op = "ask"
  /\ last.explained
  /\ last.response = "malformed"
  /\ last.groq = "error"
  /\ last.status = 500 /\ last.code = "API_ERROR"
  /\ training_data = <<>>

\* C21: once every request has been answered, the stored interactions are
\* those stored before and one for each request answered 200, each of these
\* once.
C21_OneRecordPerSuccess ==
  (last.op = "asks" /\ \A r \in Requests : pc[r] \in {"answered", "refused"}) =>
    /\ Len(training_data) =
         last.before + Cardinality({ r \in Requests : pc[r] = "answered" })
    /\ \A r \in Requests :
         pc[r] = "answered" =>
           Cardinality({ i \in DOMAIN training_data : training_data[i] = r }) = 1

C25_Pagination ==
  (last.op = "history" /\ last.per_page >= 1) =>
    LET filtered ==
          SelectSeq(training_data, LAMBDA d :
            /\ last.subject_filter # "" => d.subject = last.subject_filter
            /\ last.difficulty_filter # "" =>
                 d.difficulty = last.difficulty_filter)
        total == Len(filtered)
        pages == last.response.total_pages
        Page(n) == get_history(training_data, n, last.per_page,
                               last.subject_filter,
                               last.difficulty_filter).data
    IN  /\ last.response.status = 200
        /\ last.response.total_records = total
        /\ pages * last.per_page >= total
        /\ (pages - 1) * last.per_page < total \/ (pages = 0 /\ total = 0)
        /\ last.response.data = Page(last.page)
        /\ \A n \in 1..pages :
             Len(Page(n)) = Min(last.per_page, total - (n - 1) * last.per_page)
        /\ \A i \in 1..total :
             filtered[i] =
               Page(((i - 1) \div last.per_page) + 1)[((i - 1) % last.per_page) + 1]
        /\ last.page > pages => last.response.data = <<>>

\* three records, two on a page: the second page holds the third record
C25_LastPage ==
  /\ last.op = "history"
  /\ last.per_page = 2
  /\ last.page = 2
  /\ last.subject_filter = "" /\ last.difficulty_filter = ""
  /\ Len(training_data) = 3
  /\ last.response.total_pages = 2
  /\ last.response.data = <<training_data[3]>>

\* C26: export with format csv or json answers with a file that holds every
\* stored record, with another format it answers 400 UNSUPPORTED_FORMAT, and
\* the store is left as it is.
C26_Exported ==
  last.op = "export" =>
    /\ training_data = last.before
    /\ IF last.format_type \in {"csv", "json"}
       THEN /\ last.response.status = 200
            /\ last.response.file = training_data
       ELSE /\ last.response.status = 400
            /\ last.response.code = "UNSUPPORTED_FORMAT"

=============================================================================
